---- MODULE Spec2Model ----
(***************************************************************************)
(* The MCP tool discovery and invocation client of the Agent365 samples    *)
(* (python/claude/sample-agent/mcp_tool_registration_service.py and its    *)
(* twin in python/crewai/sample_agent): the response decoder, the          *)
(* discovery pass, and call_tool with its retry loop.                      *)
(*                                                                         *)
(* Text on the wire is a sequence of tokens.  A line of a body ends with   *)
(* the token "\n"; " " is whitespace; "data:" is the five-character SSE    *)
(* field prefix; ":" is a lone colon; "{" and "}" delimit a JSON object,   *)
(* whose members follow as key token, value token.                         *)
(***************************************************************************)
EXTENDS Integers, Sequences, FiniteSets, TLC

\* ------------------------------------------------------------- bounds

\* Longest raw SSE stream, in lines, fed to the decoder.
MaxLines == 3

\* Most servers one configuration lookup or manifest names.
MaxServers == 2

\* Discovery passes are started while fewer connections than this are held.
MaxConnections == 1

\* Connections the service of the Claude sample may come to hold over its
\* turns.
MaxHeld == 2

\* Turns in progress at once on the one agent of the CrewAI sample.
MaxTurns == 2

\* Tool calls the crew of one turn makes.
MaxToolCalls == 2

\* ----------------------------------------------------- program constants

MCP_MAX_RETRIES == 2

\* list(self._tools_by_name.keys())[:10]
AvailableLimit == 10

\* ------------------------------------------------------- JSON values

\* The members a JSON-RPC envelope may carry, in serialisation order.
KeyOrder == <<"jsonrpc", "id", "result", "error">>

JsonKeys == {KeyOrder[i] : i \in 1..Len(KeyOrder)}

\* None, and the empty dict.
NoValue == << >>

\* A tool as a tools/list result describes it.
ToolData(n) == [name |-> n]

\* Values met under "result": tools/call results (content absent, null-like
\* empty, a text element, an element without text, a bare JSON string as
\* first element) and tools/list results (name only: description and
\* inputSchema take no part in discovery or invocation).  A JSON string inside content is
\* written [json_string |-> s] to keep it apart from a JSON object.
TextElement == [type |-> "text", text |-> "sent"]

ImageElement == [type |-> "image", data |-> "AAAA"]

StringElement == [json_string |-> "plain"]

CallResults ==
    { [content |-> <<TextElement>>],
      [content |-> <<ImageElement, TextElement>>],
      [content |-> <<StringElement>>],
      [content |-> << >>, isError |-> "false"],
      [isError |-> "false"] }

\* The tool lists the modelled servers expose (see Exposes below).
MailToolNames == <<"send_email", "search">>

CatalogToolNames ==
    <<"search", "t02", "t03", "t04", "t05", "t06", "t07", "t08", "t09", "t10", "t11">>

ToolLists == {MailToolNames, <<"send_email">>, CatalogToolNames}

ListResults == { [tools |-> [i \in 1..Len(l) |-> ToolData(l[i])]] : l \in ToolLists }

ResultValues == CallResults \cup ListResults

ErrorValues == { [code |-> 0 - 32000, message |-> "boom"] }

ValuesFor(k) ==
    CASE k = "jsonrpc" -> {"2.0"}
      [] k = "id"      -> {1}
      [] k = "result"  -> ResultValues
      [] k = "error"   -> ErrorValues

\* Every JSON object over the envelope's members: each member present with
\* one of its values, or absent.
Member(k) == {NoValue} \cup {k :> v : v \in ValuesFor(k)}

JsonObjects ==
    { a @@ b @@ c @@ d : a \in Member("jsonrpc"), b \in Member("id"),
                         c \in Member("result"), d \in Member("error") }

\* dict.get(key, default)
Get(d, k, default) == IF k \in DOMAIN d THEN d[k] ELSE default

\* ------------------------------------------------- text and json.loads

IsWs(t) == t \in {" ", "\n"}

RECURSIVE LStrip(_)
LStrip(s) == IF s # << >> /\ IsWs(Head(s)) THEN LStrip(Tail(s)) ELSE s

RECURSIVE RStrip(_)
RStrip(s) ==
    IF s # << >> /\ IsWs(s[Len(s)]) THEN RStrip(SubSeq(s, 1, Len(s) - 1)) ELSE s

\* str.strip()
Strip(s) == RStrip(LStrip(s))

\* str.startswith(prefix), for a prefix that is one token
StartsWith(s, prefix) == s # << >> /\ Head(s) = prefix

RECURSIVE Flatten(_)
Flatten(lines) ==
    IF lines = << >> THEN << >> ELSE Head(lines) \o Flatten(Tail(lines))

\* json.dumps of an object, on one line.
RECURSIVE DumpsFrom(_, _)
DumpsFrom(obj, i) ==
    IF i > Len(KeyOrder) THEN << >>
    ELSE (IF KeyOrder[i] \in DOMAIN obj
            THEN <<KeyOrder[i], ToString(obj[KeyOrder[i]])>>
            ELSE << >>) \o DumpsFrom(obj, i + 1)

Dumps(obj) == <<"{">> \o DumpsFrom(obj, 1) \o <<"}">>

\* json.loads: whitespace between tokens is skipped; the text must be one
\* object, "{" members "}", each member a known key and a value of that key.
\* On a repeated key the last member wins.  [ok |-> FALSE] is JSONDecodeError.
JsonDecodeError == [ok |-> FALSE, value |-> NoValue]

MembersWellFormed(inner) ==
    /\ Len(inner) % 2 = 0
    /\ \A j \in 1..(Len(inner) \div 2) :
         /\ inner[2 * j - 1] \in JsonKeys
         /\ \E v \in ValuesFor(inner[2 * j - 1]) : ToString(v) = inner[2 * j]

LastMember(inner, k) ==
    CHOOSE j \in 1..(Len(inner) \div 2) :
      /\ inner[2 * j - 1] = k
      /\ \A j2 \in 1..(Len(inner) \div 2) : inner[2 * j2 - 1] = k => j2 <= j

MemberValue(k, token) == CHOOSE v \in ValuesFor(k) : ToString(v) = token

LoadsMembers(inner) ==
    IF MembersWellFormed(inner)
      THEN [ok |-> TRUE,
            value |-> [k \in {inner[2 * j - 1] : j \in 1..(Len(inner) \div 2)} |->
                         MemberValue(k, inner[2 * LastMember(inner, k)])]]
      ELSE JsonDecodeError

LoadsTokens(toks) ==
    IF Len(toks) >= 2 /\ toks[1] = "{" /\ toks[Len(toks)] = "}"
      THEN LoadsMembers(SubSeq(toks, 2, Len(toks) - 1))
      ELSE JsonDecodeError

Loads(text) == LoadsTokens(SelectSeq(text, LAMBDA t : ~IsWs(t)))

\* ------------------------------------------------ _parse_sse_response

JSON_TYPE == "application/json"

DATA_PREFIX == "data:"

\* An HTTP response: status, the Content-Type header as tokens (<< >> when
\* the header is absent), and the body as lines.
Response(st, ct, body) == [status |-> st, content_type |-> ct, body |-> body]

\* 'application/json' in content_type
IsJsonType(ct) == \E i \in 1..Len(ct) : ct[i] = JSON_TYPE

\* A variant that looks for 'result' only.
DataLineAcceptsResultOnly(parsed) == "result" \in DOMAIN parsed

\* The acceptance test of a 'data:' line: 'result' or 'error', else 'jsonrpc'.
DataLineAccepts(parsed) ==
    \/ "result" \in DOMAIN parsed \/ "error" \in DOMAIN parsed
    \/ "jsonrpc" \in DOMAIN parsed

\* The acceptance test of a line that starts with '{'.
BareLineAccepts(parsed) == "result" \in DOMAIN parsed \/ "jsonrpc" \in DOMAIN parsed

\* What one line of the stream yields: the object the loop breaks with, or
\* nothing (continue).
SkipLine == [found |-> FALSE, value |-> NoValue]

\* A variant that hands back the member under 'result' instead of the object.
DataLineParsedUnwrapped(parsed) ==
    IF parsed.ok /\ DataLineAccepts(parsed.value)
      THEN [found |-> TRUE, value |-> Get(parsed.value, "result", parsed.value)]
      ELSE SkipLine

DataLineParsed(parsed) ==
    IF parsed.ok /\ DataLineAccepts(parsed.value)
      THEN [found |-> TRUE, value |-> parsed.value]
      ELSE SkipLine

BareLineParsed(parsed) ==
    IF parsed.ok /\ BareLineAccepts(parsed.value)
      THEN [found |-> TRUE, value |-> parsed.value]
      ELSE SkipLine

\* data_str = line_str[5:].strip()
DataLineResult(data_str) ==
    IF data_str # << >> THEN DataLineParsed(Loads(data_str)) ELSE SkipLine

\* line_str = line.decode('utf-8').strip()
StrippedLineResult(line_str) ==
    IF line_str = << >> \/ StartsWith(line_str, ":") THEN SkipLine
    ELSE IF StartsWith(line_str, DATA_PREFIX) THEN DataLineResult(Strip(Tail(line_str)))
    ELSE IF StartsWith(line_str, "{") THEN BareLineParsed(Loads(line_str))
    ELSE SkipLine

LineResult(line) == StrippedLineResult(Strip(line))

\* The loop over response.content from line i on; consumed counts the lines
\* read from the stream.
RECURSIVE SseLoop(_, _)
SseStep(lines, i, r) ==
    IF r.found
      THEN [ok |-> TRUE, value |-> r.value, consumed |-> i, error |-> ""]
      ELSE SseLoop(lines, i + 1)

SseLoop(lines, i) ==
    IF i > Len(lines)
      THEN [ok |-> FALSE, value |-> NoValue, consumed |-> Len(lines),
            error |-> "No valid JSON-RPC response found in SSE stream"]
      ELSE SseStep(lines, i, LineResult(lines[i]))

\* response.json(): the whole body is read and parsed.
JsonOutcome(parsed, n) ==
    [ok |-> parsed.ok, value |-> parsed.value, consumed |-> n,
     error |-> IF parsed.ok THEN "" ELSE "JSONDecodeError"]

ResponseJson(response) == JsonOutcome(Loads(Flatten(response.body)), Len(response.body))

parse_sse_response(response) ==
    IF IsJsonType(response.content_type)
      THEN ResponseJson(response)
      ELSE SseLoop(response.body, 1)

\* ------------------------------------------- responses a server can send

EVENT_STREAM == "text/event-stream"

JsonTypes == { <<JSON_TYPE>>, <<JSON_TYPE, ";", "charset=utf-8">> }

SseTypes == { <<EVENT_STREAM>>, << >> }

\* The object as the whole body of an application/json response.
JsonResponse(obj, ct) == Response(200, ct, <<Dumps(obj)>>)

\* The object in a single SSE event: one 'data: <json>' line and the blank
\* line that ends the event, after an optional 'event:' field or comment.
DataLine(text) == <<DATA_PREFIX, " ">> \o text \o <<"\n">>

BlankLine == <<"\n">>

CommentLine == <<":", "keep-alive", "\n">>

EventLine == <<"event:", " ", "message", "\n">>

SseBodies(obj) ==
    { <<DataLine(Dumps(obj)), BlankLine>>,
      <<EventLine, DataLine(Dumps(obj)), BlankLine>>,
      <<CommentLine, BlankLine, <<DATA_PREFIX>> \o Dumps(obj) \o <<"\n">>, BlankLine>> }

SseResponses(obj) == { Response(200, ct, b) : ct \in SseTypes, b \in SseBodies(obj) }

\* Lines of a raw stream: blank, comment, another SSE field, 'data:' lines
\* and unframed lines carrying an object, a truncated object or nothing.
StreamObjects ==
    { "result" :> [content |-> <<TextElement>>],
      "error" :> [code |-> 0 - 32000, message |-> "boom"],
      "jsonrpc" :> "2.0",
      "id" :> 1,
      ("jsonrpc" :> "2.0") @@ ("id" :> 1) @@ ("result" :> [isError |-> "false"]) }

Truncated == <<"{", "result">>

Payloads == {Dumps(o) : o \in StreamObjects} \cup {Truncated}

StreamLines ==
    {BlankLine, CommentLine, EventLine, <<DATA_PREFIX, "\n">>}
      \cup {DataLine(t) : t \in Payloads}
      \cup {t \o <<"\n">> : t \in Payloads}

RECURSIVE SeqsUpTo(_, _)
SeqsUpTo(S, n) ==
    IF n = 0 THEN {<< >>}
    ELSE LET shorter == SeqsUpTo(S, n - 1)
         IN  shorter \cup {Append(q, x) : q \in {q \in shorter : Len(q) = n - 1}, x \in S}

Streams == SeqsUpTo(StreamLines, MaxLines)

RawResponses == { Response(200, ct, b) : ct \in SseTypes \cup {<<JSON_TYPE>>}, b \in Streams }

\* --------------------------------------------------------------- servers

DEFAULT_MCP_PLATFORM_ENDPOINT == <<"https://", "agent365.svc.cloud.microsoft">>

\* A URL is its scheme, the pieces of its host, then port and path; a
\* prefix of the string is a prefix of the tokens.
LocalUrl == <<"http://", "localhost", ":9000">>

\* A local server reached over TLS, and a remote host whose name begins
\* with "localhost".
SecureLocalUrl == <<"https://", "localhost", ":9443">>

LookalikeUrl == <<"http://", "localhost", ".example.com">>

CatalogName == "mcp_Catalog"

\* _build_full_url: a full URL as is, else the path under the platform
\* endpoint, bare names under agents/servers/.
RECURSIVE LStripSlash(_)
LStripSlash(path) ==
    IF path # << >> /\ Head(path) = "/" THEN LStripSlash(Tail(path)) ELSE path

UnderPlatform(path) ==
    DEFAULT_MCP_PLATFORM_ENDPOINT \o <<"/">>
      \o (IF StartsWith(path, "agents/") THEN path ELSE <<"agents/servers/">> \o path)

build_full_url(server_path) ==
    IF server_path = << >> THEN << >>
    ELSE IF Head(server_path) \in {"http://", "https://"} THEN server_path
    ELSE UnderPlatform(LStripSlash(server_path))

CatalogUrl == build_full_url(<<CatalogName>>)

\* The tool lists a server may expose when asked.
Exposes(url) ==
    IF url = LocalUrl THEN {MailToolNames, <<"send_email">>}
    ELSE IF url = CatalogUrl THEN {CatalogToolNames}
    ELSE {<<"send_email">>}

\* What the configuration service and the manifest can name.
ServerConfig(n, u) == [name |-> n, url |-> u]

SdkConfigs == { ServerConfig("MailTools", LocalUrl), ServerConfig(CatalogName, << >>) }

ManifestEntries ==
    { ServerConfig("MailTools", LocalUrl), ServerConfig(CatalogName, CatalogUrl),
      ServerConfig("NoUrl", << >>) }

\* What the manifest of a development machine can name: servers of this
\* machine under each spelling of their URL, and the catalog.
DevManifestEntries ==
    { ServerConfig("MailTools", LocalUrl), ServerConfig(CatalogName, CatalogUrl),
      ServerConfig("SecureLocal", SecureLocalUrl), ServerConfig("Lookalike", LookalikeUrl) }

\* ------------------------------------------------- what a POST can yield

NoResponse == Response(0, << >>, << >>)

Reply(resp) == [exc |-> "", response |-> resp]

\* asyncio.TimeoutError or aiohttp.ClientError raised by the request.
Failure(e) == [exc |-> e, response |-> NoResponse]

ErrorBody == << <<"upstream", " ", "unavailable", "\n">> >>

ErrorResponse(st) == Response(st, <<"text/plain">>, ErrorBody)

Envelope(result) == ("jsonrpc" :> "2.0") @@ ("id" :> 1) @@ ("result" :> result)

\* A 200 whose stream holds no JSON-RPC object.
GarbledResponse == Response(200, <<EVENT_STREAM>>, <<EventLine, DataLine(Truncated), BlankLine>>)

ListReplies(url) ==
    { Failure("ClientError"), Reply(ErrorResponse(500)), Reply(GarbledResponse) }
      \cup UNION { { Reply(JsonResponse(Envelope([tools |-> [i \in 1..Len(l) |-> ToolData(l[i])]]),
                                        <<JSON_TYPE>>)),
                     Reply(Response(200, <<EVENT_STREAM>>,
                             <<DataLine(Dumps(Envelope([tools |-> [i \in 1..Len(l) |-> ToolData(l[i])]]))),
                               BlankLine>>)) } : l \in Exposes(url) }

\* Objects a server answers tools/call with: each call result in an
\* envelope, a bare result, an error envelope, and an envelope with neither.
CallObjects ==
    { Envelope(r) : r \in CallResults }
      \cup { "result" :> [content |-> <<TextElement>>],
             ("jsonrpc" :> "2.0") @@ ("id" :> 1) @@ ("error" :> [code |-> 0 - 32000, message |-> "boom"]),
             ("jsonrpc" :> "2.0") @@ ("id" :> 1) }

\* Those of them also met in an SSE event.
CallStreamObjects ==
    { Envelope([content |-> <<TextElement>>]),
      Envelope([content |-> <<ImageElement, TextElement>>]),
      ("jsonrpc" :> "2.0") @@ ("id" :> 1) @@ ("error" :> [code |-> 0 - 32000, message |-> "boom"]) }

CallStatuses == {400, 404, 500, 502, 503, 504}

CallReplies ==
    { Failure("TimeoutError"), Failure("ClientError"), Reply(GarbledResponse) }
      \cup { Reply(ErrorResponse(st)) : st \in CallStatuses }
      \cup { Reply(JsonResponse(o, <<JSON_TYPE>>)) : o \in CallObjects }
      \cup { Reply(Response(200, <<EVENT_STREAM>>, <<DataLine(Dumps(o)), BlankLine>>)) :
               o \in CallStreamObjects }

\* ------------------------------------------- McpToolRegistrationService

VARIABLES
    connected_servers,  \* self._connected_servers
    tools_by_name,      \* self._tools_by_name, in insertion order
    auth_token,         \* self._auth_token
    pc,                 \* "idle", "discover" (in the server loop), "call", "sleep",
                        \* "done" (the operation has returned or raised)
    discovery,          \* locals of the running discovery pass
    discover_result,    \* how the last discover_and_connect_servers ended
    call,               \* locals of the running call_tool
    call_result,        \* how the last call_tool ended
    http_log,           \* POST requests sent by the current or last operation
    fed,                \* decoder harness: the responses handed to the decoder
    outs                \* decoder harness: what the decoder made of them

\* The other programs of the repository, each with the state it keeps.
VARIABLES
    crew,               \* the CrewAI sample: its agent and the turns in progress
    wrapper,            \* ObservableMCPTool._run: one call of the wrapper
    bedrock,            \* the Bedrock sample: its registration service
    points,             \* assign_points.py: its two files and the running script
    tracker             \* track_points.py: the comments of a pull request

serviceVars == <<connected_servers, tools_by_name, auth_token, pc, discovery,
                 discover_result, call, call_result, http_log, fed, outs>>

sampleVars == <<crew, wrapper, bedrock, points, tracker>>

vars == <<connected_servers, tools_by_name, auth_token, pc, discovery,
          discover_result, call, call_result, http_log, fed, outs,
          crew, wrapper, bedrock, points, tracker>>

NONE == "<None>"

MCPToolDefinition(n, url, server) == [name |-> n, server_url |-> url, server_name |-> server]

MCPServerConnection(n, u, h, t, c) ==
    [name |-> n, url |-> u, headers |-> h, tools |-> t, connected |-> c]

NoConnection == MCPServerConnection(NONE, << >>, NoValue, << >>, FALSE)

BEARER_PREFIX == "Bearer"

LocalHeaders == "Content-Type" :> JSON_TYPE

RemoteHeaders(token) ==
    ("Authorization" :> <<BEARER_PREFIX, token>>)
      @@ ("User-Agent" :> "Claude-Agent-SDK/1.0 (Claude)")
      @@ ("Content-Type" :> JSON_TYPE)

\* {**headers, "Accept": "text/event-stream, application/json"}
RequestHeaders(headers) == ("Accept" :> "text/event-stream, application/json") @@ headers

Request(url, headers, method) == [url |-> url, headers |-> headers, method |-> method]

\* An exception: its type, message, the HTTP status and body it quotes, and
\* the tool names it lists.
Error(type, message, st, text, available) ==
    [type |-> type, message |-> message, status |-> st, text |-> text,
     available |-> available]

NoError == Error("", "", 0, << >>, << >>)

NoResult == [kind |-> "none", value |-> "", tools |-> << >>, error |-> NoError]

Returned(v) == [NoResult EXCEPT !.kind = "returned", !.value = v]

ReturnedTools(t) == [NoResult EXCEPT !.kind = "returned", !.tools = t]

Raised(e) == [NoResult EXCEPT !.kind = "raised", !.error = e]

\* url.startswith("http://localhost") or url.startswith("http://127.0.0.1")
is_local(url) ==
    /\ Len(url) >= 2
    /\ url[1] = "http://"
    /\ url[2] \in {"localhost", "127.0.0.1"}

\* _list_server_tools, given what its POST yields: the tools of the decoded
\* result, or an exception (a failed request, a status other than 200, an
\* undecodable body).
ListFailed(request) == [raised |-> TRUE, tools |-> << >>, requests |-> <<request>>]

\* A variant that builds the list from the last tool to the first.
ToolDefinitionsReversed(tools_data, server_url, server_name) ==
    [i \in 1..Len(tools_data) |->
       MCPToolDefinition(Get(tools_data[Len(tools_data) + 1 - i], "name", ""),
                         server_url, server_name)]

ToolDefinitions(tools_data, server_url, server_name) ==
    [i \in 1..Len(tools_data) |->
       MCPToolDefinition(Get(tools_data[i], "name", ""), server_url, server_name)]

ListDecoded(result, request, server_url, server_name) ==
    IF ~result.ok THEN ListFailed(request)
    ELSE [raised |-> FALSE,
          tools |-> ToolDefinitions(Get(Get(result.value, "result", NoValue), "tools", << >>),
                                    server_url, server_name),
          requests |-> <<request>>]

ListSent(request, server_url, server_name, reply) ==
    IF reply.exc # "" THEN ListFailed(request)
    ELSE IF reply.response.status = 200
      THEN ListDecoded(parse_sse_response(reply.response), request, server_url, server_name)
    ELSE ListFailed(request)

list_server_tools(server_url, headers, server_name, reply) ==
    ListSent(Request(server_url, RequestHeaders(headers), "tools/list"),
             server_url, server_name, reply)

\* _connect_to_server, given what the listing POST yields: the connection,
\* or None when a remote server has no token or the listing fails.
\* A variant that marks the connection connected before the listing is known.
ConnectedAnyway(name, url, headers, listed) ==
    [raised |-> FALSE,
     connection |-> MCPServerConnection(name, url, headers, listed.tools, TRUE),
     requests |-> listed.requests]

Connected(name, url, headers, listed) ==
    [raised |-> FALSE,
     connection |-> IF listed.raised THEN NoConnection
                    ELSE MCPServerConnection(name, url, headers, listed.tools, TRUE),
     requests |-> listed.requests]

ConnectWith(name, url, headers, reply) ==
    Connected(name, url, headers, list_server_tools(url, headers, name, reply))

connect_to_server(name, url, token, reply) ==
    IF is_local(url) THEN ConnectWith(name, url, LocalHeaders, reply)
    ELSE IF token = ""
      THEN [raised |-> FALSE, connection |-> NoConnection, requests |-> << >>]
    ELSE ConnectWith(name, url, RemoteHeaders(token), reply)

\* --------------------------------------------- discovery: its inputs

\* auth.exchange_token: raises, returns no token, returns a token.
ExchangeOutcomes ==
    { [raised |-> TRUE, token |-> ""], [raised |-> FALSE, token |-> ""],
      [raised |-> FALSE, token |-> "exchanged-token"] }

PLACEHOLDER_TOKEN == "your_bearer_token_here"

\* os.getenv("BEARER_TOKEN"): unset, empty, the placeholder, a token.
BearerEnvs == {NONE, "", PLACEHOLDER_TOKEN, "env-token"}

\* McpToolServerConfigurationService.list_tool_servers: raises, or returns
\* server configurations.
ConfigOutcomes ==
    { [raised |-> TRUE, servers |-> << >>] }
      \cup { [raised |-> FALSE, servers |-> l] : l \in SeqsUpTo(SdkConfigs, MaxServers) }

\* ToolingManifest.json: missing, unreadable, or a list of mcpServers.
NoManifest == [kind |-> "missing", servers |-> << >>]

Manifests ==
    { NoManifest, [kind |-> "unreadable", servers |-> << >>] }
      \cup { [kind |-> "file", servers |-> l] : l \in SeqsUpTo(ManifestEntries, MaxServers) }

\* The manifest that is on disk when the configuration service answers
\* with servers: it names a server the service does not know.
ShadowedManifest ==
    [kind |-> "file", servers |-> <<ServerConfig("SecureLocal", SecureLocalUrl)>>]

\* On a development machine the configuration service is not reachable.
DevConfigOutcomes == { [raised |-> TRUE, servers |-> << >>] }

\* The manifests of a development machine.
DevManifests ==
    { [kind |-> "file", servers |-> l] : l \in SeqsUpTo(DevManifestEntries, MaxServers) }

\* The argument, the exchange and BEARER_TOKEN of one pass; what the code
\* does not read on a path (the exchange when a token is passed, the
\* environment when a token is in hand) is there to be had and not varied.
TokenInputs ==
    { <<"caller-token", [raised |-> FALSE, token |-> "exchanged-token"], "env-token">>,
      <<"", [raised |-> FALSE, token |-> "exchanged-token"], "env-token">> }
      \cup { <<"", x, b>> : x \in {x \in ExchangeOutcomes : x.token = ""}, b \in BearerEnvs }

\* ------------------------------------------ discover_and_connect_servers

\* The token of the pass: the argument, else the exchanged token, else
\* BEARER_TOKEN, else "".  An exception of the exchange is caught.
ExchangedToken(arg, exchange) ==
    IF arg # "" THEN arg
    ELSE IF ~exchange.raised /\ exchange.token # "" THEN exchange.token
    ELSE ""

\* A variant that prefers BEARER_TOKEN to the token in hand.
BearerFirst(token, bearer_env) ==
    IF bearer_env \notin {NONE, PLACEHOLDER_TOKEN, ""} THEN bearer_env ELSE token

BearerFallback(token, bearer_env) ==
    IF token # "" THEN token
    ELSE IF bearer_env \notin {NONE, PLACEHOLDER_TOKEN, ""} THEN bearer_env
    ELSE ""

ResolveToken(arg, exchange, bearer_env) ==
    [raised |-> FALSE,
     token |-> BearerFallback(ExchangedToken(arg, exchange), bearer_env),
     exchange_attempted |-> arg = ""]

\* The configuration lookup: each SDK configuration becomes {name, url}
\* with its URL made full; a configuration without a URL is looked up by
\* its name.  An exception of the service is caught.
ConvertConfig(name, full_url) ==
    IF full_url # << >> THEN <<ServerConfig(name, full_url)>> ELSE << >>

RECURSIVE ConvertConfigs(_)
ConvertConfigs(sdk_configs) ==
    IF sdk_configs = << >> THEN << >>
    ELSE ConvertConfig(Head(sdk_configs).name,
                       build_full_url(IF Head(sdk_configs).url # << >>
                                        THEN Head(sdk_configs).url
                                        ELSE <<Head(sdk_configs).name>>))
           \o ConvertConfigs(Tail(sdk_configs))

\* A variant without the try/except around the lookup.
ListConfiguredServersUncaught(outcome) ==
    [raised |-> outcome.raised,
     configs |-> IF outcome.raised THEN << >> ELSE ConvertConfigs(outcome.servers)]

ListConfiguredServers(outcome) ==
    IF outcome.raised THEN [raised |-> FALSE, configs |-> << >>]
    ELSE [raised |-> FALSE, configs |-> ConvertConfigs(outcome.servers)]

\* _load_manifest_servers_fallback: the entries that have a url; a missing
\* file gives none, and an exception while reading is caught.
\* A variant that finds no server in a manifest it has read.
LoadManifestEmpty(manifest) == [raised |-> FALSE, servers |-> << >>]

load_manifest_servers_fallback(manifest) ==
    IF manifest.kind = "missing" THEN [raised |-> FALSE, servers |-> << >>]
    ELSE IF manifest.kind = "unreadable" THEN [raised |-> FALSE, servers |-> << >>]
    ELSE [raised |-> FALSE, servers |-> SelectSeq(manifest.servers, LAMBDA e : e.url # << >>)]

\* A variant that keeps the first tool of a name (dict.setdefault).
IndexPutKeepFirst(index, tool) ==
    IF \E i \in 1..Len(index) : index[i].name = tool.name THEN index ELSE Append(index, tool)

\* self._tools_by_name[tool.name] = tool
IndexPut(index, tool) ==
    IF \E i \in 1..Len(index) : index[i].name = tool.name
      THEN [i \in 1..Len(index) |-> IF index[i].name = tool.name THEN tool ELSE index[i]]
      ELSE Append(index, tool)

RECURSIVE IndexAll(_, _)
IndexAll(index, tools) ==
    IF tools = << >> THEN index ELSE IndexAll(IndexPut(index, Head(tools)), Tail(tools))

NoDiscovery ==
    [configs |-> << >>, i |-> 1, all_tools |-> << >>, token |-> "", first |-> 0,
     replies |-> << >>, exchange_attempted |-> FALSE, exchange_raised |-> FALSE,
     config_raised |-> FALSE, manifest_kind |-> "unread",
     offered |-> [arg |-> "", exchange |-> "", bearer |-> ""],
     sdk_count |-> 0, manifest_servers |-> << >>]

NoCall ==
    [tool_name |-> "", connection |-> NoConnection, attempt |-> 0,
     last_error |-> NoError, replies |-> << >>, sleeps |-> 0]

\* The tokens a pass could have had: the argument, what the exchange had
\* to give, what BEARER_TOKEN held beyond a blank or the placeholder.
Offered(arg, exchange, bearer_env) ==
    [arg |-> arg,
     exchange |-> IF exchange.raised THEN "" ELSE exchange.token,
     bearer |-> IF bearer_env = "env-token" THEN bearer_env ELSE ""]

\* Lines 278-281: the manifest is read when the lookup left no
\* configuration.
\* A variant that reads the manifest after every lookup.
ServerConfigsWithManifest(sdk, manifest) ==
    [raised |-> FALSE,
     servers |-> sdk.configs \o load_manifest_servers_fallback(manifest).servers]

ServerConfigsOf(sdk, manifest) ==
    IF sdk.configs = << >> THEN load_manifest_servers_fallback(manifest)
    ELSE [raised |-> FALSE, servers |-> sdk.configs]

\* Lines 206-283: the token, the configuration lookup, the manifest
\* fallback, in an environment given by what the configuration service and
\* the manifest can hold; the pass brings at most room servers.
Discover(outcomes, manifests, room) ==
    /\ pc = "idle"
    /\ \E tokens \in TokenInputs, outcome \in outcomes :
       \E tok \in {ResolveToken(tokens[1], tokens[2], tokens[3])},
          sdk \in {ListConfiguredServers(outcome)} :
       \E manifest \in (IF sdk.configs = << >> THEN manifests ELSE {ShadowedManifest}) :
       \E loaded \in {ServerConfigsOf(sdk, manifest)} :
         /\ Len(loaded.servers) <= room
         /\ auth_token' = IF tok.raised THEN auth_token ELSE tok.token
         /\ IF tok.raised \/ sdk.raised \/ loaded.raised
              THEN /\ pc' = "done"
                   /\ discovery' = NoDiscovery
                   /\ discover_result' =
                        Raised(Error("Exception", "discovery failed", 0, << >>, << >>))
              ELSE /\ pc' = "discover"
                   /\ discovery' = [NoDiscovery EXCEPT
                          !.configs = loaded.servers,
                          !.token = tok.token,
                          !.first = Len(connected_servers),
                          !.exchange_attempted = tok.exchange_attempted,
                          !.exchange_raised = tok.exchange_attempted /\ tokens[2].raised,
                          !.config_raised = outcome.raised,
                          !.manifest_kind = IF sdk.configs = << >> THEN manifest.kind
                                            ELSE "unread",
                          !.offered = Offered(tokens[1], tokens[2], tokens[3]),
                          !.sdk_count = Len(outcome.servers),
                          !.manifest_servers = manifest.servers]
                   /\ discover_result' = NoResult
    /\ call' = NoCall
    /\ call_result' = NoResult
    /\ http_log' = << >>
    /\ UNCHANGED sampleVars
    /\ UNCHANGED <<connected_servers, tools_by_name, fed, outs>>

\* discover_and_connect_servers is entered.
DiscoverStart ==
    /\ Len(connected_servers) < MaxConnections
    /\ Discover(ConfigOutcomes, Manifests, MaxServers)

\* Lines 288-313: one turn of the loop over the server configurations.  A
\* connection that is None or not connected adds nothing; an exception of
\* the turn is caught and the loop goes on.
ConnectServer ==
    /\ pc = "discover"
    /\ discovery.i <= Len(discovery.configs)
    /\ \E server_config \in {discovery.configs[discovery.i]} :
       \E reply \in ListReplies(server_config.url) :
       \E c \in {connect_to_server(server_config.name, server_config.url,
                                    discovery.token, reply)} :
       \E ok \in {~c.raised /\ c.connection # NoConnection /\ c.connection.connected} :
         /\ c.requests = << >> => reply = Failure("ClientError")
         /\ connected_servers' = IF ok THEN Append(connected_servers, c.connection)
                                 ELSE connected_servers
         /\ tools_by_name' = IF ok THEN IndexAll(tools_by_name, c.connection.tools)
                             ELSE tools_by_name
         /\ discovery' = [discovery EXCEPT
                !.i = @ + 1,
                !.all_tools = IF ok THEN @ \o c.connection.tools ELSE @,
                !.replies = Append(@, IF c.requests = << >> THEN Failure("skipped") ELSE reply)]
         /\ http_log' = http_log \o c.requests
    /\ UNCHANGED sampleVars
    /\ UNCHANGED <<auth_token, pc, discover_result, call, call_result, fed, outs>>

\* Lines 315-316: return all_tools.
DiscoverReturn ==
    /\ pc = "discover"
    /\ discovery.i > Len(discovery.configs)
    /\ pc' = "done"
    /\ discover_result' = ReturnedTools(discovery.all_tools)
    /\ UNCHANGED sampleVars
    /\ UNCHANGED <<connected_servers, tools_by_name, auth_token, discovery, call,
                   call_result, http_log, fed, outs>>

\* The caller has the result or the exception of the operation; the locals
\* of the operation are gone.
ReturnToCaller ==
    /\ pc = "done"
    /\ pc' = "idle"
    /\ discovery' = NoDiscovery
    /\ discover_result' = NoResult
    /\ call' = NoCall
    /\ call_result' = NoResult
    /\ http_log' = << >>
    /\ UNCHANGED sampleVars
    /\ UNCHANGED <<connected_servers, tools_by_name, auth_token, fed, outs>>

\* A variant of cleanup() that forgets the connections and keeps the index.
cleanupConnectionsOnly ==
    /\ pc = "idle"
    /\ connected_servers' = << >>
    /\ auth_token' = NONE
    /\ UNCHANGED sampleVars
    /\ UNCHANGED <<tools_by_name, pc, discovery, discover_result, call, call_result,
                   http_log, fed, outs>>

\* cleanup()
cleanup ==
    /\ pc = "idle"
    /\ connected_servers' = << >>
    /\ tools_by_name' = << >>
    /\ auth_token' = NONE
    /\ UNCHANGED sampleVars
    /\ UNCHANGED <<pc, discovery, discover_result, call, call_result, http_log, fed, outs>>

\* -------------------------------------------------------------- call_tool

\* The tool names call_tool is asked for.
CallNames == {"search", "send_email", "unknown_tool"}

\* Variants of the tuple: with 500, with 404.
RetryableWith500 == {500, 502, 503, 504}

RetryableWith404 == {404, 502, 503, 504}

RETRYABLE_STATUSES == {502, 503, 504}

IsDict(v) == "json_string" \notin DOMAIN v

\* str(v)
PyStr(v) == IF IsDict(v) THEN ToString(v) ELSE v.json_string

\* A variant that gives no text for an element without a text field.
FirstContentTextOnly(first_content) == Get(first_content, "text", "")

\* Lines 560-572: the text of a decoded tools/call response.
FirstContentText(first_content) ==
    IF IsDict(first_content)
      THEN Get(first_content, "text", PyStr(first_content))
      ELSE PyStr(first_content)

ContentText(result, content) ==
    IF content # << >> THEN FirstContentText(content[1])
    ELSE IF "result" \in DOMAIN result THEN PyStr(result["result"]) ELSE ""

ExtractText(result) ==
    ContentText(result, Get(Get(result, "result", NoValue), "content", << >>))

\* A variant without the [:10].
AvailableAll(index) == [i \in 1..Len(index) |-> index[i].name]

\* list(self._tools_by_name.keys())[:10]
Available(index) ==
    [i \in 1..(IF Len(index) < AvailableLimit THEN Len(index) ELSE AvailableLimit) |->
       index[i].name]

InIndex(index, tool_name) == \E i \in 1..Len(index) : index[i].name = tool_name

Lookup(index, tool_name) == index[CHOOSE i \in 1..Len(index) : index[i].name = tool_name]

\* The first connection whose url is the tool's server_url, else None.
FindConnection(servers, server_url) ==
    IF \E i \in 1..Len(servers) : servers[i].url = server_url
      THEN servers[CHOOSE i \in 1..Len(servers) :
                     /\ servers[i].url = server_url
                     /\ \A j \in 1..(i - 1) : servers[j].url # server_url]
      ELSE NoConnection

\* Lines 549-589: what one attempt does with what its POST yields: return a
\* text, raise, or record last_error and go on.
\* A variant that raises for a decoded object with an error member.
HandleDecodedErrorRaises(result) ==
    IF result.ok /\ "error" \notin DOMAIN result.value
      THEN [do |-> "return", value |-> ExtractText(result.value), error |-> NoError]
      ELSE [do |-> "raise", value |-> "",
            error |-> Error("Exception", "JSON-RPC error", 0, << >>, << >>)]

HandleDecoded(result) ==
    IF result.ok
      THEN [do |-> "return", value |-> ExtractText(result.value), error |-> NoError]
      ELSE [do |-> "raise", value |-> "",
            error |-> Error("Exception", result.error, 0, << >>, << >>)]

\* A variant whose except clauses re-raise: no transport error is retried.
HandleReplyTransportFatal(reply) ==
    IF reply.exc # ""
      THEN [do |-> "raise", value |-> "",
            error |-> Error(reply.exc, "transport error", 0, << >>, << >>)]
    ELSE IF reply.response.status = 200
      THEN HandleDecoded(parse_sse_response(reply.response))
    ELSE IF reply.response.status \in RETRYABLE_STATUSES
      THEN [do |-> "continue", value |-> "",
            error |-> Error("Exception", "MCP server error", reply.response.status,
                            reply.response.body, << >>)]
    ELSE [do |-> "raise", value |-> "",
          error |-> Error("Exception", "MCP tool call failed", reply.response.status,
                          reply.response.body, << >>)]

HandleReply(reply) ==
    IF reply.exc = "TimeoutError"
      THEN [do |-> "continue", value |-> "",
            error |-> Error("Exception", "MCP tool call timed out", 0, << >>, << >>)]
    ELSE IF reply.exc = "ClientError"
      THEN [do |-> "continue", value |-> "",
            error |-> Error("ClientError", "connection error", 0, << >>, << >>)]
    ELSE IF reply.response.status = 200
      THEN HandleDecoded(parse_sse_response(reply.response))
    ELSE IF reply.response.status \in RETRYABLE_STATUSES
      THEN [do |-> "continue", value |-> "",
            error |-> Error("Exception", "MCP server error", reply.response.status,
                            reply.response.body, << >>)]
    ELSE [do |-> "raise", value |-> "",
          error |-> Error("Exception", "MCP tool call failed", reply.response.status,
                          reply.response.body, << >>)]

\* for attempt in range(MCP_MAX_RETRIES + 1), and the sleep before the next
\* turn: after this attempt another follows.
\* Variants of the loop bound: one turn too many, one too few.
RetryAfterInclusive(attempt) == attempt <= MCP_MAX_RETRIES

RetryAfterOnce(attempt) == attempt < MCP_MAX_RETRIES - 1

RetryAfter(attempt) == attempt < MCP_MAX_RETRIES

\* Lines 509-547: the lookups before the first attempt.
CallTool ==
    /\ pc = "idle"
    /\ \E tool_name \in CallNames :
         IF ~InIndex(tools_by_name, tool_name)
           THEN /\ call_result' = Raised(Error("ValueError", "Tool not found", 0, << >>,
                                               Available(tools_by_name)))
                /\ call' = [NoCall EXCEPT !.tool_name = tool_name]
                /\ pc' = "done"
           ELSE \E connection \in {FindConnection(connected_servers,
                                       Lookup(tools_by_name, tool_name).server_url)} :
                  IF connection = NoConnection
                    THEN /\ call_result' = Raised(Error("ValueError", "No connection found",
                                                        0, << >>, << >>))
                         /\ call' = [NoCall EXCEPT !.tool_name = tool_name]
                         /\ pc' = "done"
                    ELSE /\ call_result' = NoResult
                         /\ call' = [NoCall EXCEPT !.tool_name = tool_name,
                                                   !.connection = connection]
                         /\ pc' = "call"
    /\ http_log' = << >>
    /\ discover_result' = NoResult
    /\ discovery' = NoDiscovery
    /\ UNCHANGED sampleVars
    /\ UNCHANGED <<connected_servers, tools_by_name, auth_token, fed, outs>>

\* Lines 548-597: one turn of the retry loop, and the raise after the last.
Attempt ==
    /\ pc = "call"
    /\ \E reply \in CallReplies :
       \E handled \in {HandleReply(reply)} :
         /\ http_log' = Append(http_log,
                Request(call.connection.url, RequestHeaders(call.connection.headers),
                        "tools/call"))
         /\ IF handled.do = "return"
              THEN /\ call_result' = Returned(handled.value)
                   /\ call' = [call EXCEPT !.replies = Append(@, reply)]
                   /\ pc' = "done"
              ELSE IF handled.do = "raise"
              THEN /\ call_result' = Raised(handled.error)
                   /\ call' = [call EXCEPT !.replies = Append(@, reply)]
                   /\ pc' = "done"
              ELSE IF RetryAfter(call.attempt)
              THEN /\ call_result' = NoResult
                   /\ call' = [call EXCEPT !.replies = Append(@, reply),
                                           !.last_error = handled.error]
                   /\ pc' = "sleep"
              ELSE /\ call_result' = Raised(handled.error)
                   /\ call' = [call EXCEPT !.replies = Append(@, reply),
                                           !.last_error = handled.error]
                   /\ pc' = "done"
    /\ UNCHANGED sampleVars
    /\ UNCHANGED <<connected_servers, tools_by_name, auth_token, discovery,
                   discover_result, fed, outs>>

\* Line 593: await asyncio.sleep(MCP_RETRY_DELAY_SECONDS), then the next turn.
Sleep ==
    /\ pc = "sleep"
    /\ call' = [call EXCEPT !.attempt = @ + 1, !.sleeps = @ + 1]
    /\ pc' = "call"
    /\ UNCHANGED sampleVars
    /\ UNCHANGED <<connected_servers, tools_by_name, auth_token, discovery,
                   discover_result, call_result, http_log, fed, outs>>

\* ------------------------------------------------------ the other programs

\* ----------------------------------------------------- the CrewAI sample

\* agent.py: one CrewAIAgent serves every turn of the host
\* (host_agent_server.py keeps one agent_instance).  A turn is one
\* process_user_message coroutine; it yields to the others where it awaits:
\* in _setup_mcp_servers while the discovery pass runs, and in
\* asyncio.to_thread(run_crew, ...) while the crew runs on a worker thread
\* and calls the observable tools from there.
Turns == 1..MaxTurns

\* extract_turn_context_details(context): each turn is for its own tenant.
Tenant(t) == <<"tenant", t>>

AgentDetails(t) == [agent_id |-> "crewai-agent", tenant_id |-> Tenant(t)]

TenantDetails(t) == [tenant_id |-> Tenant(t)]

\* What discover_and_connect_servers gives _setup_mcp_servers: it raises, or
\* returns the names of the tools it found.
CrewDiscoveries ==
    { [raised |-> TRUE, tools |-> << >>], [raised |-> FALSE, tools |-> << >>],
      [raised |-> FALSE, tools |-> <<"send_email">>],
      [raised |-> FALSE, tools |-> <<"send_email", "search">>] }

NoTurn == [pc |-> "arrived", tools |-> << >>, calls |-> 0]

\* CrewAIAgent.__init__ (lines 81-89), with the turns that have arrived, the
\* passes started so far and the tool calls recorded by ExecuteToolScope.
NoCrew ==
    [mcp_servers_initialized |-> FALSE,
     mcp_tools |-> << >>,
     current_agent_details |-> NONE,
     current_tenant_details |-> NONE,
     discoveries |-> 0,
     turns |-> [t \in Turns |-> NoTurn],
     tool_log |-> << >>]

\* Lines 393-424: the turn stores its details on the agent, wraps the
\* agent's tools and hands the crew to a worker thread.
StartCrew(c, t) ==
    [c EXCEPT !.current_agent_details = AgentDetails(t),
              !.current_tenant_details = TenantDetails(t),
              !.turns[t] = [pc |-> "crew", tools |-> c.mcp_tools, calls |-> 0]]

\* Lines 131-160: not initialized, the turn calls
\* discover_and_connect_servers and awaits it.
BeginDiscovery(c, t) == [c EXCEPT !.discoveries = @ + 1, !.turns[t].pc = "discovering"]

\* process_user_message up to its first await: _setup_mcp_servers returns at
\* once when the flag is set (lines 131-132), and the turn goes on to the
\* crew; else the discovery pass is started.
ProcessUserMessage(t) ==
    /\ crew.turns[t].pc = "arrived"
    /\ crew' = IF crew.mcp_servers_initialized THEN StartCrew(crew, t)
               ELSE BeginDiscovery(crew, t)
    /\ UNCHANGED serviceVars
    /\ UNCHANGED <<wrapper, bedrock, points, tracker>>

\* The awaited pass ends: mcp_tools is its result, or [] when it raised
\* (lines 154-172), the flag is set in the finally (line 174), and the turn
\* goes on to the crew.
SetupMcpServersReturns(t) ==
    /\ crew.turns[t].pc = "discovering"
    /\ \E found \in CrewDiscoveries :
         crew' = StartCrew([crew EXCEPT !.mcp_tools = found.tools,
                                        !.mcp_servers_initialized = TRUE], t)
    /\ UNCHANGED serviceVars
    /\ UNCHANGED <<wrapper, bedrock, points, tracker>>

\* Lines 314-327: the crew of the turn runs one of its tools;
\* ObservableMCPTool._run reads agent_ref._current_agent_details and
\* _current_tenant_details when it is called, and call_mcp_tool opens the
\* ExecuteToolScope with them (lines 219-223).
ObservableToolRun(t) ==
    /\ crew.turns[t].pc = "crew"
    /\ crew.turns[t].calls < MaxToolCalls
    /\ \E i \in 1..Len(crew.turns[t].tools) :
         crew' = [crew EXCEPT
                    !.turns[t].calls = @ + 1,
                    !.tool_log = Append(@, [turn |-> t,
                                            tool_name |-> crew.turns[t].tools[i],
                                            agent_details |-> crew.current_agent_details,
                                            tenant_details |-> crew.current_tenant_details])]
    /\ UNCHANGED serviceVars
    /\ UNCHANGED <<wrapper, bedrock, points, tracker>>

\* Lines 431-452: the crew has returned; the turn clears the details on the
\* agent and returns its response.
RunCrewReturns(t) ==
    /\ crew.turns[t].pc = "crew"
    /\ crew' = [crew EXCEPT !.current_agent_details = NONE,
                            !.current_tenant_details = NONE,
                            !.turns[t].pc = "finished"]
    /\ UNCHANGED serviceVars
    /\ UNCHANGED <<wrapper, bedrock, points, tracker>>

\* ------------------------------------------------ ObservableMCPTool._run

\* The two wrappers of the CrewAI sample: the one agent.py builds
\* (lines 308-334) and the one of mcp_observable_tools.py (lines 223-264).
Implementations == {"agent", "mcp_observable_tools"}

\* Where CrewAI calls _run from: a thread without a running event loop, or
\* the thread of a running event loop.
CallingContexts == {"no_loop", "loop_thread"}

\* What _run gave: nothing yet, a string (the text of the tool, or an
\* error sentence about a tool name and a message), or an exception.
NoRunResult ==
    [kind |-> "none", value |-> "", error_about |-> "", error_message |-> NoError,
     error |-> NoError]

RunReturned(value) == [NoRunResult EXCEPT !.kind = "returned", !.value = value]

\* f"Error executing {tool_def.name}: {str(e)}": str(e) keeps the message
\* of the exception and drops its type.
ErrorExecuting(tool_name, e) ==
    [NoRunResult EXCEPT !.kind = "returned", !.error_about = tool_name,
                        !.error_message = [e EXCEPT !.type = ""]]

RunRaised(e) == [NoRunResult EXCEPT !.kind = "raised", !.error = e]

\* The wrapper is not running.  pc: "idle", "running" (the coroutine of the
\* tool call runs under _run), "blocked" (_run waits in future.result for a
\* coroutine scheduled on the loop of its own thread), "returned".
NoWrapper ==
    [pc |-> "idle", implementation |-> "", context |-> "", tool_name |-> "",
     scheduled |-> FALSE, result |-> NoRunResult]

\* loop.run_until_complete in a thread whose loop is running.
LoopIsRunning ==
    Error("RuntimeError", "Cannot run the event loop while another loop is running",
          0, << >>, << >>)

\* concurrent.futures.TimeoutError of future.result: no message.
FutureTimeout == Error("TimeoutError", "", 0, << >>, << >>)

\* _run up to the point where it waits.  agent.py: a new event loop runs
\* the coroutine (lines 317-326), which raises RuntimeError at once in the
\* thread of a running loop and is caught (lines 328-330).
\* mcp_observable_tools.py: get_running_loop() raises RuntimeError without a
\* running loop and the handler runs the coroutine with asyncio.run
\* (lines 249-259); with a running loop the coroutine is scheduled on that
\* loop and _run waits for its future in the loop's own thread
\* (lines 234-247).
RunStarts ==
    /\ wrapper.pc = "idle"
    /\ \E implementation \in Implementations, context \in CallingContexts,
          tool_name \in CallNames :
         \E started \in {[NoWrapper EXCEPT !.implementation = implementation,
                                           !.context = context,
                                           !.tool_name = tool_name]} :
           wrapper' =
             IF context = "no_loop"
               THEN [started EXCEPT !.pc = "running"]
             ELSE IF implementation = "agent"
               THEN [started EXCEPT !.pc = "returned",
                                    !.result = ErrorExecuting(tool_name, LoopIsRunning)]
             ELSE [started EXCEPT !.pc = "blocked", !.scheduled = TRUE]
    /\ UNCHANGED serviceVars
    /\ UNCHANGED <<crew, bedrock, points, tracker>>

\* The coroutine of the tool call runs while _run drives its loop, or,
\* scheduled on the loop _run was blocking, once _run has given the thread
\* back.
CoroutineMayRun ==
    \/ wrapper.pc = "running"
    \/ wrapper.pc = "returned" /\ wrapper.scheduled

\* tool_executor.call_tool(tool_name=tool_def.name, ...)
WrapperCallTool ==
    /\ CoroutineMayRun
    /\ CallTool
    /\ call'.tool_name = wrapper.tool_name

WrapperAttempt ==
    /\ CoroutineMayRun
    /\ Attempt

WrapperSleep ==
    /\ CoroutineMayRun
    /\ Sleep

\* What _run makes of an exception of the coroutine it ran: agent.py
\* catches it (lines 328-330); in mcp_observable_tools.py the coroutine ran
\* inside the 'except RuntimeError' handler (lines 249-259), where the
\* 'except Exception' clause of the same try (lines 260-262) does not reach.
RunFailed(implementation, tool_name, e) ==
    IF implementation = "agent"
      THEN ErrorExecuting(tool_name, e)
      ELSE RunRaised(e)

\* The coroutine _run was driving has ended.
RunReturns ==
    /\ wrapper.pc = "running"
    /\ pc = "done"
    /\ wrapper' = [wrapper EXCEPT
                     !.pc = "returned",
                     !.result = IF call_result.kind = "returned"
                                  THEN RunReturned(call_result.value)
                                  ELSE RunFailed(wrapper.implementation, wrapper.tool_name,
                                                 call_result.error)]
    /\ UNCHANGED serviceVars
    /\ UNCHANGED <<crew, bedrock, points, tracker>>

\* mcp_observable_tools.py line 247: future.result(timeout=300) gives up;
\* the loop, whose thread _run holds, has not run the coroutine.  The
\* TimeoutError is caught (lines 260-262).
FutureTimesOut ==
    /\ wrapper.pc = "blocked"
    /\ wrapper' = [wrapper EXCEPT !.pc = "returned",
                                  !.result = ErrorExecuting(wrapper.tool_name, FutureTimeout)]
    /\ UNCHANGED serviceVars
    /\ UNCHANGED <<crew, bedrock, points, tracker>>

\* ------------------------------------------------ the Bedrock sample

\* The agent objects a caller hands in.
Agents == {"agent-a", "agent-b"}

\* auth_token and gateway_name of a call: "" stands for None and for the
\* empty string, which the code treats alike ('if not auth_token',
\* 'gateway_name or ...').
BedrockTokens == {"", "caller-token"}

GatewayNames == {"", "custom-gateway"}

\* Utility.resolve_agent_identity(context, auth_token)
AgenticAppIds == {"app-1", "app-2"}

\* gateway_name or f"Agent365-Gateway-{agentic_app_id}"
GatewayNameOf(gateway_name, agentic_app_id) ==
    IF gateway_name /= "" THEN <<gateway_name>>
    ELSE <<"Agent365-Gateway-", agentic_app_id>>

MCPGatewayConfig(gateway_id, name) ==
    [gateway_id |-> gateway_id, gateway_arn |-> <<"arn:", gateway_id>>,
     gateway_url |-> <<"https://", gateway_id>>, name |-> name]

\* self._gateway_config = None
NoGatewayConfig == MCPGatewayConfig("", << >>)

\* What the services around the call answer: the token exchange, the
\* configuration service, list_mcp_gateways (the gateway is listed, is not,
\* or the listing raises), create_mcp_gateway, create_mcp_gateway_target,
\* synchronize_gateway_targets.
Environments ==
    [exchange_token : {"ok", "raises"},
     list_tool_servers : {"raises", "none", "one"},
     list_mcp_gateways : {"listed", "absent", "raises"},
     create_mcp_gateway : {"ok", "raises"},
     create_mcp_gateway_target : {"ok", "raises"},
     synchronize_gateway_targets : {"ok", "raises"}]

\* Every service answers, none raises.
AllSucceed(environment) ==
    /\ environment.exchange_token = "ok"
    /\ environment.list_tool_servers /= "raises"
    /\ environment.list_mcp_gateways /= "raises"
    /\ environment.create_mcp_gateway = "ok"
    /\ environment.create_mcp_gateway_target = "ok"
    /\ environment.synchronize_gateway_targets = "ok"

\* What add_tool_servers_to_agent gave: nothing yet, the pair
\* (agent, gateway_config), or an exception.
NoAddResult == [kind |-> "none", agent |-> "", gateway_config |-> NoGatewayConfig,
                error |-> NoError]

\* The attributes __init__ gives an instance (lines 58-69); the class has
\* none of its own.
InstanceAttributes ==
    {"_logger", "_region", "_config_service", "_gateway_config", "_agentcore_client"}

\* The service after __init__ with a client, no call under way.
NoBedrock ==
    [pc |-> "idle", agentcore_client |-> TRUE, gateway_config |-> NoGatewayConfig,
     agent |-> "", auth_token |-> "", gateway_name |-> "", agentic_app_id |-> "",
     environment |-> << >>, result |-> NoAddResult]

\* _create_or_get_gateway: the cached config of that name, else the listed
\* gateway of that name, else a created one; an exception of the listing is
\* logged, an exception of create_mcp_gateway propagates.
create_or_get_gateway(cached, name, environment) ==
    IF cached /= NoGatewayConfig /\ cached.name = name
      THEN [raised |-> FALSE, config |-> cached]
    ELSE IF environment.list_mcp_gateways = "listed"
      THEN [raised |-> FALSE, config |-> MCPGatewayConfig("gw-listed", name)]
    ELSE IF environment.create_mcp_gateway = "ok"
      THEN [raised |-> FALSE, config |-> MCPGatewayConfig("gw-created", name)]
    ELSE [raised |-> TRUE, config |-> cached]

\* Lines 108-144, entered with the token in hand.  Line 108 reads
\* self._orchestrator_name.  Then the configurations are listed, the
\* gateway is found or made under its name, the targets are added and
\* synchronised (their exceptions are logged, lines 134-135, 264-266), and
\* the pair is returned.
Register(b, token) ==
    IF "_orchestrator_name" \notin InstanceAttributes
      THEN [b EXCEPT !.pc = "done", !.auth_token = token,
                     !.result = [NoAddResult EXCEPT
                                   !.kind = "raised",
                                   !.error = Error("AttributeError", "_orchestrator_name",
                                                   0, << >>, << >>)]]
    ELSE IF b.environment.list_tool_servers = "raises"
      THEN [b EXCEPT !.pc = "done", !.auth_token = token,
                     !.result = [NoAddResult EXCEPT
                                   !.kind = "raised",
                                   !.error = Error("Exception", "list_tool_servers",
                                                   0, << >>, << >>)]]
    ELSE LET gateway == create_or_get_gateway(
                            b.gateway_config,
                            GatewayNameOf(b.gateway_name, b.agentic_app_id),
                            b.environment)
         IN  IF gateway.raised
               THEN [b EXCEPT !.pc = "done", !.auth_token = token,
                              !.result = [NoAddResult EXCEPT
                                            !.kind = "raised",
                                            !.error = Error("Exception", "create_mcp_gateway",
                                                            0, << >>, << >>)]]
               ELSE [b EXCEPT !.pc = "done", !.auth_token = token,
                              !.gateway_config = gateway.config,
                              !.result = [NoAddResult EXCEPT
                                            !.kind = "returned",
                                            !.agent = b.agent,
                                            !.gateway_config = gateway.config]]

\* add_tool_servers_to_agent up to its first await: without a client it
\* raises RuntimeError (lines 98-99); without a token it awaits the exchange
\* (lines 102-104); with one it goes on to line 108.
add_tool_servers_to_agent ==
    /\ bedrock.pc = "idle"
    /\ \E agent \in Agents, token \in BedrockTokens, gateway_name \in GatewayNames,
          agentic_app_id \in AgenticAppIds, environment \in Environments :
         \E b \in {[bedrock EXCEPT !.agent = agent, !.auth_token = token,
                                   !.gateway_name = gateway_name,
                                   !.agentic_app_id = agentic_app_id,
                                   !.environment = environment,
                                   !.result = NoAddResult]} :
           bedrock' =
             IF ~bedrock.agentcore_client
               THEN [b EXCEPT !.pc = "done",
                              !.result = [NoAddResult EXCEPT
                                            !.kind = "raised",
                                            !.error = Error("RuntimeError",
                                                            "Bedrock AgentCore client not initialized",
                                                            0, << >>, << >>)]]
             ELSE IF token = ""
               THEN [b EXCEPT !.pc = "exchange_token"]
             ELSE Register(b, token)
    /\ UNCHANGED serviceVars
    /\ UNCHANGED <<crew, wrapper, points, tracker>>

\* auth.exchange_token returns or raises (lines 104-105).
ExchangeTokenReturns ==
    /\ bedrock.pc = "exchange_token"
    /\ bedrock' =
         IF bedrock.environment.exchange_token = "raises"
           THEN [bedrock EXCEPT !.pc = "done",
                                !.result = [NoAddResult EXCEPT
                                              !.kind = "raised",
                                              !.error = Error("Exception", "exchange_token",
                                                              0, << >>, << >>)]]
           ELSE Register(bedrock, "exchanged-token")
    /\ UNCHANGED serviceVars
    /\ UNCHANGED <<crew, wrapper, points, tracker>>

\* The caller has the outcome; the service keeps its client and its cached
\* gateway.
AddToolServersReturns ==
    /\ bedrock.pc = "done"
    /\ bedrock' = [NoBedrock EXCEPT !.agentcore_client = bedrock.agentcore_client,
                                    !.gateway_config = bedrock.gateway_config]
    /\ UNCHANGED serviceVars
    /\ UNCHANGED <<crew, wrapper, points, tracker>>


\* ------------------------------------------------------ assign_points.py

\* The runs of the script one history holds.
MaxRuns == 4

\* config_points.yml as load_config reads it: the points of each kind.
cfg == [basic_review |-> 5, detailed_review |-> 10, performance_improvement |-> 4,
        approve_pr |-> 3]

\* str.lower() on the phrases the events carry.
Lower(text) ==
    CASE text = "Basic Review" -> "basic review"
      [] text = "DETAILED" -> "detailed"
      [] text = "Performance" -> "performance"
      [] OTHER -> text

\* phrase in body.lower(): the body is the set of the phrases it holds.
Contains(body, phrase) == \E text \in body : Lower(text) = phrase

\* A missing 'review' or 'comment' of an event; id 0 stands for a missing
\* id.
NoPart == [id |-> 0, body |-> {}, state |-> "", login |-> ""]

Review(id, body, state, login) == [id |-> id, body |-> body, state |-> state, login |-> login]

Comment(id, body, login) == [id |-> id, body |-> body, state |-> "", login |-> login]

\* The webhook events the runs are given: reviews and comments, ids met
\* again with another body or another author, a comment with the id of a
\* review, an event that earns nothing, an event without an id.
Events ==
    { [action |-> "submitted", review |-> Review(1, {"Basic Review"}, "APPROVED", "alice"),
       comment |-> NoPart],
      [action |-> "edited", review |-> Review(1, {"DETAILED"}, "approved", "alice"),
       comment |-> NoPart],
      [action |-> "submitted", review |-> Review(2, {"lgtm"}, "commented", "bob"),
       comment |-> NoPart],
      [action |-> "edited", review |-> Review(2, {"Performance", "detailed"}, "commented", "bob"),
       comment |-> NoPart],
      [action |-> "created", review |-> NoPart,
       comment |-> Comment(1, {"performance"}, "bob")],
      [action |-> "created", review |-> NoPart,
       comment |-> Comment(0, {"performance"}, "alice")] }

\* detect_points: the points add up (lines 52-59); the user is the login of
\* the review, else of the comment, else "unknown" (line 47).
detect_points(event) ==
    [points |->
         (IF Contains(event.review.body, "basic review") THEN cfg.basic_review ELSE 0)
       + (IF Contains(event.review.body, "detailed") THEN cfg.detailed_review ELSE 0)
       + (IF Contains(event.comment.body, "performance")
             \/ Contains(event.review.body, "performance")
            THEN cfg.performance_improvement ELSE 0)
       + (IF event.action = "submitted" /\ Lower(event.review.state) = "approved"
            THEN cfg.approve_pr ELSE 0),
     user |-> IF event.review.login /= "" THEN event.review.login
              ELSE IF event.comment.login /= "" THEN event.comment.login
              ELSE "unknown"]

\* event.get('review', {}).get('id') or event.get('comment', {}).get('id')
EventId(event) == IF event.review.id /= 0 THEN event.review.id ELSE event.comment.id

\* A file: missing, unreadable as JSON, or JSON text (its items in order).
MissingFile == [state |-> "missing", items |-> << >>]

CorruptFile == [state |-> "corrupt", items |-> << >>]

\* json.dump of a list of ids, and of the leaderboard.
DumpIds(ids) == [state |-> "json", items |-> [i \in 1..Len(ids) |-> [number |-> ids[i]]]]

DumpLeaderboard(leaderboard) ==
    [state |-> "json",
     items |-> [i \in 1..Len(leaderboard) |->
                  [key |-> leaderboard[i].user, number |-> leaderboard[i].points]]]

\* load_processed_ids: [] for a missing or an unreadable file.
load_processed_ids(file) ==
    IF file.state = "json" THEN [i \in 1..Len(file.items) |-> file.items[i].number]
    ELSE << >>

\* Lines 65-72: {} for a missing or an unreadable leaderboard.
LoadLeaderboard(file) ==
    IF file.state = "json"
      THEN [i \in 1..Len(file.items) |->
              [user |-> file.items[i].key, points |-> file.items[i].number]]
    ELSE << >>

\* leaderboard[user] = leaderboard.get(user, 0) + points
AddPoints(leaderboard, user, n) ==
    IF \E i \in 1..Len(leaderboard) : leaderboard[i].user = user
      THEN [i \in 1..Len(leaderboard) |->
              IF leaderboard[i].user = user
                THEN [leaderboard[i] EXCEPT !.points = leaderboard[i].points + n]
                ELSE leaderboard[i]]
      ELSE Append(leaderboard, [user |-> user, points |-> n])

\* update_leaderboard: the file after the call.
update_leaderboard(file, user, n) == DumpLeaderboard(AddPoints(LoadLeaderboard(file), user, n))

\* event_id in processed_ids
AlreadyProcessedNever(event_id, processed_ids) == FALSE

AlreadyProcessed(event_id, processed_ids) ==
    \E i \in 1..Len(processed_ids) : processed_ids[i] = event_id

\* The two files before any run, with what the runs have done: their number,
\* the last event id and outcome, and the ids whose points went to the
\* leaderboard, in order.
NoPoints ==
    [processed_file |-> MissingFile, leaderboard_file |-> MissingFile, runs |-> 0,
     event_id |-> 0, outcome |-> "", awarded |-> << >>]

\* main, one run of the script on one event.
main ==
    /\ points.runs < MaxRuns
    /\ \E event \in Events :
         \E detected \in {detect_points(event)},
            processed_ids \in {load_processed_ids(points.processed_file)} :
           points' =
             IF EventId(event) = 0
               THEN [points EXCEPT !.runs = @ + 1, !.event_id = 0, !.outcome = "no_id"]
             ELSE IF AlreadyProcessed(EventId(event), processed_ids)
               THEN [points EXCEPT !.runs = @ + 1, !.event_id = EventId(event),
                                   !.outcome = "already_processed"]
             ELSE IF detected.points <= 0
               THEN [points EXCEPT !.runs = @ + 1, !.event_id = EventId(event),
                                   !.outcome = "no_points"]
             ELSE [points EXCEPT
                     !.runs = @ + 1, !.event_id = EventId(event), !.outcome = "awarded",
                     !.leaderboard_file = update_leaderboard(@, detected.user, detected.points),
                     !.processed_file = DumpIds(Append(processed_ids, EventId(event))),
                     !.awarded = Append(@, EventId(event))]
    /\ UNCHANGED serviceVars
    /\ UNCHANGED <<crew, wrapper, bedrock, tracker>>


\* ------------------------------------------------------- track_points.py

\* The runs of the tracker on the pull request, and the comments other
\* people leave on it, in one history.
MaxTrackerRuns == 3

MaxOtherComments == 2

COMMENT_MARKER == "<!-- CONTRIBUTOR_POINTS_TRACKER -->"

\* A comment of the pull request: its body is a marker, or none, and the
\* rest (for a tracker comment, the run that wrote it).
IssueComment(id, marker, rest) == [id |-> id, marker |-> marker, rest |-> rest]

\* What requests.get / post / patch make of a request: an answer, or an
\* exception (raise_for_status included).
ApiOutcomes == {"ok", "fails"}

\* github_api_request('GET', issues/{pr}/comments): the comments, or {}
\* after an exception (lines 130-142).
GetComments(comments, outcome) ==
    IF outcome = "ok" THEN [is_list |-> TRUE, comments |-> comments]
    ELSE [is_list |-> FALSE, comments |-> << >>]

\* find_existing_comment: the id of the first comment with the marker in
\* its body, None (0) when the answer is no list or holds none.
find_existing_comment(answer) ==
    IF ~answer.is_list THEN 0
    ELSE IF \E i \in 1..Len(answer.comments) : answer.comments[i].marker = COMMENT_MARKER
      THEN answer.comments[CHOOSE i \in 1..Len(answer.comments) :
                             /\ answer.comments[i].marker = COMMENT_MARKER
                             /\ \A j \in 1..(i - 1) :
                                  answer.comments[j].marker /= COMMENT_MARKER].id
    ELSE 0

\* PATCH issues/comments/{id} at GitHub.
Patched(comments, id, rest) ==
    [i \in 1..Len(comments) |->
       IF comments[i].id = id THEN [comments[i] EXCEPT !.rest = rest] ELSE comments[i]]

\* The pull request before any run: no comments.  request is what the last
\* run asked of the API after its search.
NoTracker == [comments |-> << >>, next_id |-> 1, runs |-> 0, request |-> ""]

\* main on an event of the pull request (lines 492-514) with
\* update_or_create_comment (lines 439-450): without contributors the run
\* ends; else the tracker comment is searched, patched when found and
\* posted when not; format_comment_body starts every body with the marker.
track_points ==
    /\ tracker.runs < MaxTrackerRuns
    /\ \E contributors \in BOOLEAN, get \in ApiOutcomes, write \in ApiOutcomes :
         \E existing_comment_id \in {find_existing_comment(GetComments(tracker.comments, get))} :
           tracker' =
             IF ~contributors
               THEN [tracker EXCEPT !.runs = @ + 1, !.request = ""]
             ELSE IF existing_comment_id /= 0
               THEN [tracker EXCEPT
                       !.runs = @ + 1, !.request = "PATCH",
                       !.comments = IF write = "ok"
                                      THEN Patched(@, existing_comment_id, tracker.runs + 1)
                                      ELSE @]
             ELSE [tracker EXCEPT
                     !.runs = @ + 1, !.request = "POST",
                     !.comments = IF write = "ok"
                                    THEN Append(@, IssueComment(tracker.next_id, COMMENT_MARKER,
                                                                tracker.runs + 1))
                                    ELSE @,
                     !.next_id = IF write = "ok" THEN @ + 1 ELSE @]
    /\ UNCHANGED serviceVars
    /\ UNCHANGED <<crew, wrapper, bedrock, points>>

\* Someone comments on the pull request; the comment has no marker.
OtherComment ==
    /\ Cardinality({i \in 1..Len(tracker.comments) : tracker.comments[i].marker = ""})
         < MaxOtherComments
    /\ tracker' = [tracker EXCEPT
                     !.comments = Append(@, IssueComment(tracker.next_id, "", 0)),
                     !.next_id = @ + 1]
    /\ UNCHANGED serviceVars
    /\ UNCHANGED <<crew, wrapper, bedrock, points>>


\* The service as constructed and no operation on it.
ServiceIdle ==
    /\ connected_servers = << >>
    /\ tools_by_name = << >>
    /\ auth_token = NONE
    /\ pc = "idle"
    /\ discovery = NoDiscovery
    /\ discover_result = NoResult
    /\ call = NoCall
    /\ call_result = NoResult
    /\ http_log = << >>
    /\ fed = << >>
    /\ outs = << >>

\* The other programs are not running.
SamplesIdle ==
    /\ crew = NoCrew
    /\ wrapper = NoWrapper
    /\ bedrock = NoBedrock
    /\ points = NoPoints
    /\ tracker = NoTracker

\* ------------------------------------------------------- specifications

Init ==
    /\ connected_servers = << >>
    /\ tools_by_name = << >>
    /\ auth_token = NONE
    /\ pc = "idle"
    /\ discovery = NoDiscovery
    /\ discover_result = NoResult
    /\ call = NoCall
    /\ call_result = NoResult
    /\ http_log = << >>
    /\ fed = << >>
    /\ outs = << >>
    /\ SamplesIdle

Next ==
    \/ DiscoverStart
    \/ ConnectServer
    \/ DiscoverReturn
    \/ CallTool
    \/ Attempt
    \/ Sleep
    \/ ReturnToCaller
    \/ cleanup

Spec == Init /\ [][Next]_vars

\* ------------------------------------------------ the CrewAI sample's turns

InitCrew == ServiceIdle /\ SamplesIdle

NextCrew ==
    \/ \E t \in Turns : ProcessUserMessage(t)
    \/ \E t \in Turns : SetupMcpServersReturns(t)
    \/ \E t \in Turns : ObservableToolRun(t)
    \/ \E t \in Turns : RunCrewReturns(t)

SpecCrew == InitCrew /\ [][NextCrew]_vars

\* ------------------------------------------ the turns of the Claude sample

\* agent.py: ClaudeAgent makes its service once (_initialize_mcp_services)
\* and process_user_message has setup_mcp_servers run a discovery pass on
\* it at every turn; mcp_tools is what the pass returns.
setup_mcp_servers ==
    /\ Len(connected_servers) <= MaxHeld
    /\ Discover(DevConfigOutcomes, DevManifests, MaxHeld - Len(connected_servers))

NextTurns ==
    \/ setup_mcp_servers
    \/ ConnectServer
    \/ DiscoverReturn
    \/ ReturnToCaller

SpecTurns == Init /\ [][NextTurns]_vars

\* -------------------------------- the turns of the Claude sample, with calls

\* Between the passes of its turns the agent calls the tools of the service.
NextReconnect ==
    \/ setup_mcp_servers
    \/ ConnectServer
    \/ DiscoverReturn
    \/ CallTool
    \/ Attempt
    \/ Sleep
    \/ ReturnToCaller

SpecReconnect == Init /\ [][NextReconnect]_vars

\* ------------------------------------------------- the listing on its own

\* What the service holds when a server is asked again: nothing, or the
\* connection and the tool of a pass over MailTools.
HeldStates ==
    { [connections |-> << >>, index |-> << >>],
      [connections |-> <<MCPServerConnection("MailTools", LocalUrl, LocalHeaders,
                             <<MCPToolDefinition("send_email", LocalUrl, "MailTools")>>, TRUE)>>,
       index |-> <<MCPToolDefinition("send_email", LocalUrl, "MailTools")>>] }

\* The headers _connect_to_server hands to the listing of a server.
ListingHeaders(url) == IF is_local(url) THEN LocalHeaders ELSE RemoteHeaders("caller-token")

\* A server, and what its two listing POSTs yield.
InitList ==
    /\ \E held \in HeldStates :
         /\ connected_servers = held.connections
         /\ tools_by_name = held.index
    /\ auth_token = "caller-token"
    /\ pc = "idle"
    /\ \E server \in DevManifestEntries :
         /\ discovery = [NoDiscovery EXCEPT !.configs = <<server>>, !.token = "caller-token"]
         /\ fed \in { <<r1, r2>> : r1 \in ListReplies(server.url), r2 \in ListReplies(server.url) }
    /\ discover_result = NoResult
    /\ call = NoCall
    /\ call_result = NoResult
    /\ http_log = << >>
    /\ outs = << >>
    /\ SamplesIdle

\* tools = await self._list_server_tools(url, headers, name), once more.
ListTools ==
    /\ Len(outs) < Len(fed)
    /\ \E server \in {discovery.configs[1]} :
       \E listed \in {list_server_tools(server.url, ListingHeaders(server.url), server.name,
                                         fed[Len(outs) + 1])} :
         /\ outs' = Append(outs, listed)
         /\ http_log' = http_log \o listed.requests
    /\ UNCHANGED sampleVars
    /\ UNCHANGED <<connected_servers, tools_by_name, auth_token, pc, discovery,
                   discover_result, call, call_result, fed>>

NextList == ListTools

SpecList == InitList /\ [][NextList]_vars

\* ------------------------------------------------- the wrapper on its own

\* A service that holds nothing or MailTools, and a wrapper about to run.
InitWrapper ==
    /\ \E held \in HeldStates :
         /\ connected_servers = held.connections
         /\ tools_by_name = held.index
    /\ auth_token = ""
    /\ pc = "idle"
    /\ discovery = NoDiscovery
    /\ discover_result = NoResult
    /\ call = NoCall
    /\ call_result = NoResult
    /\ http_log = << >>
    /\ fed = << >>
    /\ outs = << >>
    /\ SamplesIdle

NextWrapper ==
    \/ RunStarts
    \/ WrapperCallTool
    \/ WrapperAttempt
    \/ WrapperSleep
    \/ RunReturns
    \/ FutureTimesOut

SpecWrapper == InitWrapper /\ [][NextWrapper]_vars

\* ------------------------------------------ the Bedrock service on its own

\* __init__ (lines 58-69): boto3.client gave a client, or raised and left
\* None.
InitBedrock ==
    /\ ServiceIdle
    /\ crew = NoCrew
    /\ wrapper = NoWrapper
    /\ points = NoPoints
    /\ tracker = NoTracker
    /\ \E client \in BOOLEAN : bedrock = [NoBedrock EXCEPT !.agentcore_client = client]

NextBedrock ==
    \/ add_tool_servers_to_agent
    \/ ExchangeTokenReturns
    \/ AddToolServersReturns

SpecBedrock == InitBedrock /\ [][NextBedrock]_vars

\* ----------------------------------------------- assign_points on its own

\* Before the first run each file is missing or holds no JSON.
InitPoints ==
    /\ ServiceIdle
    /\ crew = NoCrew
    /\ wrapper = NoWrapper
    /\ bedrock = NoBedrock
    /\ tracker = NoTracker
    /\ \E processed_file \in {MissingFile, CorruptFile},
          leaderboard_file \in {MissingFile, CorruptFile} :
         points = [NoPoints EXCEPT !.processed_file = processed_file,
                                   !.leaderboard_file = leaderboard_file]

NextPoints == main

SpecPoints == InitPoints /\ [][NextPoints]_vars

\* ------------------------------------------------ track_points on its own

InitTracker ==
    /\ ServiceIdle
    /\ SamplesIdle

NextTracker ==
    \/ track_points
    \/ OtherComment

SpecTracker == InitTracker /\ [][NextTracker]_vars

\* ------------------------------------------------- the decoder on its own

\* The responses handed to _parse_sse_response: one object in both framings
\* (the application/json body, then a single SSE event), or one raw stream.
FramingsOf(obj) == { <<JsonResponse(obj, ct), f>> : ct \in JsonTypes, f \in SseResponses(obj) }

Framings == UNION { FramingsOf(o) : o \in JsonObjects }

InitParse ==
    /\ connected_servers = << >>
    /\ tools_by_name = << >>
    /\ auth_token = NONE
    /\ pc = "idle"
    /\ discovery = NoDiscovery
    /\ discover_result = NoResult
    /\ call = NoCall
    /\ call_result = NoResult
    /\ http_log = << >>
    /\ fed \in Framings \cup { <<r>> : r \in RawResponses }
    /\ outs = << >>
    /\ SamplesIdle

\* result = await self._parse_sse_response(response), on the next response.
Decode ==
    /\ Len(outs) < Len(fed)
    /\ outs' = Append(outs, parse_sse_response(fed[Len(outs) + 1]))
    /\ UNCHANGED sampleVars
    /\ UNCHANGED <<connected_servers, tools_by_name, auth_token, pc, discovery,
                   discover_result, call, call_result, http_log, fed>>

NextParse == Decode

SpecParse == InitParse /\ [][NextParse]_vars

\* ------------------------------------------------------ call_tool: claims

IndexNames(index) == {index[i].name : i \in 1..Len(index)}

\* The reply is an HTTP response with this status.
Answered(reply, st) == reply.exc = "" /\ reply.response.status = st

C1_AllRetryable ==
    /\ call.replies # << >>
    /\ \A i \in 1..Len(call.replies) :
         \E st \in {502, 503, 504} : Answered(call.replies[i], st)

\* C1: when every attempt of one call_tool is answered with 502, 503 or 504,
\* call_tool sends exactly 3 POSTs, never a 4th, and then raises the error
\* recorded for the last attempt (it quotes the last status and body).
C1_RetryableExhausted ==
    /\ Len(http_log) > 3 => call.connection = NoConnection
    /\ (pc = "done" /\ C1_AllRetryable) =>
         /\ Len(call.replies) = 3
         /\ Len(http_log) = 3
         /\ \A i \in 1..3 : /\ http_log[i].method = "tools/call"
                             /\ http_log[i].url = call.connection.url
         /\ call_result.kind = "raised"
         /\ call_result.error.message = "MCP server error"
         /\ call_result.error.status = call.replies[3].response.status
         /\ call_result.error.text = call.replies[3].response.body
         /\ call_result.error = call.last_error

C1_Witness ==
    /\ pc = "done"
    /\ C1_AllRetryable
    /\ Len(call.replies) = 3
    /\ Answered(call.replies[1], 502)
    /\ Answered(call.replies[2], 503)
    /\ Answered(call.replies[3], 504)
    /\ call_result.kind = "raised"
    /\ call_result.error.status = 504

\* The reply is a 200 that carries the object, as a JSON body or in one SSE event.
Carries(reply, obj) ==
    \/ reply = Reply(JsonResponse(obj, <<JSON_TYPE>>))
    \/ reply = Reply(Response(200, <<EVENT_STREAM>>, <<DataLine(Dumps(obj)), BlankLine>>))

\* Every tools/call object with each 200 reply that carries it.
Carriers ==
    UNION { { [obj |-> o, reply |-> Reply(JsonResponse(o, <<JSON_TYPE>>))],
              [obj |-> o, reply |-> Reply(Response(200, <<EVENT_STREAM>>,
                                            <<DataLine(Dumps(o)), BlankLine>>))] } :
            o \in CallObjects }

C2_TwoUnavailable ==
    /\ Len(call.replies) >= 2
    /\ Answered(call.replies[1], 503)
    /\ Answered(call.replies[2], 503)

\* C2 as stated: after 503, 503 and any 200, call_tool returns a text and
\* raises no error.
C2_SucceedsOnAny200 ==
    (pc = "done" /\ C2_TwoUnavailable /\ Len(call.replies) = 3
       /\ Answered(call.replies[3], 200))
      => call_result.kind = "returned"

\* C2, amended: after 503 and 503 a third attempt is made, and when it is
\* answered with a 200 that carries a JSON-RPC object the decoder accepts,
\* call_tool returns the text extracted from that third response, without
\* raising and without a fourth request.
C2_SucceedsOnThirdAttempt ==
    /\ (C2_TwoUnavailable /\ Len(call.replies) = 2) => pc \in {"sleep", "call"}
    /\ (pc = "done" /\ C2_TwoUnavailable /\ Len(call.replies) = 3) =>
         \A c \in Carriers :
           c.reply = call.replies[3]
             => /\ call_result = Returned(ExtractText(c.obj))
                /\ Len(http_log) = 3

C2_Witness ==
    /\ pc = "done"
    /\ C2_TwoUnavailable
    /\ Len(call.replies) = 3
    /\ Carries(call.replies[3], Envelope([content |-> <<TextElement>>]))
    /\ call_result = Returned("sent")
    /\ call.sleeps = 2

\* A step of call_tool for a name that is not a key of the index.
C3_UnknownToolStep ==
    /\ pc = "idle"
    /\ call'.tool_name # ""
    /\ call'.tool_name \notin IndexNames(tools_by_name)

\* C3: call_tool for a name that is not a key of the index fails at once
\* with an error that lists at most 10 of the available names, sends no
\* HTTP request, and leaves the connected servers and the index unchanged.
C3_UnknownToolFailsFast ==
    [][C3_UnknownToolStep =>
         /\ pc' = "done"
         /\ call_result'.kind = "raised"
         /\ call_result'.error.message = "Tool not found"
         /\ Len(call_result'.error.available) <= 10
         /\ \A i \in 1..Len(call_result'.error.available) :
              call_result'.error.available[i] \in IndexNames(tools_by_name)
         /\ http_log' = << >>
         /\ call'.attempt = 0
         /\ UNCHANGED <<connected_servers, tools_by_name>>]_vars

C3_Witness ==
    /\ pc = "done"
    /\ call.tool_name = "unknown_tool"
    /\ call_result.kind = "raised"
    /\ call_result.error.message = "Tool not found"
    /\ Cardinality(IndexNames(tools_by_name)) > 10
    /\ Len(call_result.error.available) = 10
    /\ http_log = << >>

\* A call_tool that got past its lookups, and its latest reply.
Calling == call.connection # NoConnection /\ call.replies # << >>

LastReply == call.replies[Len(call.replies)]

C12_ClientErrorFailsAtOnce ==
    \A st \in {c \in CallStatuses : 400 <= c /\ c <= 499} :
      (Calling /\ \E i \in 1..Len(call.replies) : Answered(call.replies[i], st))
        => /\ Answered(LastReply, st)
           /\ pc = "done"
           /\ call_result.kind = "raised"
           /\ call_result.error.status = st
           /\ call.sleeps = Len(call.replies) - 1
           /\ Len(http_log) = Len(call.replies)

C12_Witness ==
    /\ pc = "done"
    /\ Calling
    /\ Len(call.replies) = 1
    /\ Answered(call.replies[1], 404)
    /\ call_result.kind = "raised"
    /\ call_result.error.status = 404
    /\ call.sleeps = 0
    /\ Len(http_log) = 1

TransportError(reply) == reply.exc \in {"TimeoutError", "ClientError"}

\* The error call_tool keeps for a transport error.
C13_ErrorOf(reply, error) ==
    IF reply.exc = "TimeoutError"
      THEN error.type = "Exception" /\ error.message = "MCP tool call timed out"
      ELSE error.type = "ClientError"

C10_Stringified(v) == IF "json_string" \in DOMAIN v THEN v.json_string ELSE ToString(v)

C10_Content(obj) == IF "content" \in DOMAIN obj.result THEN obj.result.content ELSE << >>

C10_Text(obj) ==
    IF C10_Content(obj) # << >>
      THEN IF "text" \in DOMAIN C10_Content(obj)[1]
             THEN C10_Content(obj)[1].text
             ELSE C10_Stringified(C10_Content(obj)[1])
      ELSE ToString(obj.result)

\* C10: for a successful tools/call response call_tool returns the text of
\* result.content[0] when content is non-empty and its first element has a
\* text field, the stringified first element when it has none, and the
\* stringified value under result when content is empty or absent.
C10_TextExtraction ==
    (pc = "done" /\ call.replies # << >>) =>
      \A c \in Carriers :
        (c.reply = call.replies[Len(call.replies)] /\ "result" \in DOMAIN c.obj)
          => call_result = Returned(C10_Text(c.obj))

C10_Witness ==
    /\ pc = "done"
    /\ Len(call.replies) = 1
    /\ Carries(call.replies[1], Envelope([content |-> <<ImageElement, TextElement>>]))
    /\ call_result.kind = "returned"
    /\ call_result.value = ToString(ImageElement)

\* ------------------------------------------------------ discovery: claims

ToolNames(tools) == {tools[i].name : i \in 1..Len(tools)}

\* The discovery pass has returned to its caller-to-be.
PassReturned == pc = "done" /\ call.tool_name = "" /\ discover_result.kind = "returned"

\* The connections the pass appended.
PassRange == (discovery.first + 1)..Len(connected_servers)

C4_LastListing(n) ==
    CHOOSE m \in PassRange :
      /\ n \in ToolNames(connected_servers[m].tools)
      /\ \A k \in PassRange : n \in ToolNames(connected_servers[k].tools) => k <= m

C4_Entries(n) == {k \in 1..Len(tools_by_name) : tools_by_name[k].name = n}

\* C4: when two servers connected in one discovery pass each list a tool of
\* the same name, the index then holds exactly one entry of that name, bound
\* to the server whose listing was processed last.
C4_LastServerWins ==
    PassReturned =>
      \A i \in PassRange, j \in PassRange :
        i < j =>
          \A n \in ToolNames(connected_servers[i].tools)
                     \cap ToolNames(connected_servers[j].tools) :
            /\ Cardinality(C4_Entries(n)) = 1
            /\ \A k \in C4_Entries(n) :
                 /\ tools_by_name[k].server_url = connected_servers[C4_LastListing(n)].url
                 /\ tools_by_name[k].server_name = connected_servers[C4_LastListing(n)].name

C4_Witness ==
    /\ PassReturned
    /\ Len(connected_servers) = 2
    /\ discovery.first = 0
    /\ connected_servers[1].url = LocalUrl
    /\ connected_servers[2].url = CatalogUrl
    /\ "search" \in ToolNames(connected_servers[1].tools)
    /\ "search" \in ToolNames(connected_servers[2].tools)
    /\ \E k \in 1..Len(tools_by_name) :
         /\ tools_by_name[k].name = "search"
         /\ tools_by_name[k].server_url = CatalogUrl

\* The reply to tools/list is a 200 that lists these tool names.
Lists(reply, l) == Carries(reply, Envelope([tools |-> [i \in 1..Len(l) |-> ToolData(l[i])]]))

\* Every tool list with each 200 reply that lists it.
Listings ==
    UNION { { [names |-> l, reply |-> r] : r \in {r \in ListReplies(u) : Lists(r, l)} } :
            l \in ToolLists, u \in {LocalUrl, CatalogUrl, SecureLocalUrl, LookalikeUrl} }

\* The k-th server of the pass was asked and answered with a listing.
C5_Reachable(k) == \E c \in Listings : c.reply = discovery.replies[k]

C5_Listing(k) == (CHOOSE c \in Listings : c.reply = discovery.replies[k]).names

C5_ToolsOf(k) ==
    [i \in 1..Len(C5_Listing(k)) |->
       MCPToolDefinition(C5_Listing(k)[i], discovery.configs[k].url, discovery.configs[k].name)]

\* What the reachable servers from the k-th on contribute, in order.
RECURSIVE C5_ExpectedTools(_)
C5_ExpectedTools(k) ==
    IF k > Len(discovery.configs) THEN << >>
    ELSE (IF C5_Reachable(k) THEN C5_ToolsOf(k) ELSE << >>) \o C5_ExpectedTools(k + 1)

RECURSIVE C5_ExpectedConnections(_)
C5_ExpectedConnections(k) ==
    IF k > Len(discovery.configs) THEN << >>
    ELSE (IF C5_Reachable(k)
            THEN <<[name |-> discovery.configs[k].name, url |-> discovery.configs[k].url,
                    tools |-> C5_ToolsOf(k)]>>
            ELSE << >>) \o C5_ExpectedConnections(k + 1)

C5_NewConnections ==
    [m \in 1..(Len(connected_servers) - discovery.first) |->
       [name |-> connected_servers[discovery.first + m].name,
        url |-> connected_servers[discovery.first + m].url,
        tools |-> connected_servers[discovery.first + m].tools]]

C6_DiscoverNeverRaises ==
    (pc = "done" /\ call.tool_name = "") =>
      /\ discover_result.kind = "returned"
      /\ discovery.configs = << >> =>
           /\ discover_result.tools = << >>
           /\ http_log = << >>

C6_Witness ==
    /\ PassReturned
    /\ discovery.exchange_raised
    /\ discovery.config_raised
    /\ discovery.manifest_kind = "unreadable"
    /\ discovery.configs = << >>
    /\ discover_result = ReturnedTools(<< >>)

\* -------------------------------------------------------- decoder: claims

\* Both framings of the object have been decoded.
C7_Decoded(obj) ==
    /\ Len(outs) = 2
    /\ fed[1].body = <<Dumps(obj)>>
    /\ fed \in FramingsOf(obj)

\* C7: for a JSON-RPC object with a result key, the decoder returns the same
\* object from an application/json response whose body is the object as from
\* an SSE stream that carries the object in a single 'data:' event.
C7_FramingsAgree ==
    Len(outs) = 2 =>
      \A o \in JsonObjects :
        ("result" \in DOMAIN o /\ C7_Decoded(o))
          => /\ outs[1].ok
             /\ outs[2].ok
             /\ outs[1].value = outs[2].value
             /\ outs[2].value = o

C7_Witness ==
    /\ C7_Decoded(Envelope([content |-> <<TextElement>>]))
    /\ fed[1].content_type = <<JSON_TYPE, ";", "charset=utf-8">>
    /\ fed[2].content_type = <<EVENT_STREAM>>
    /\ fed[2].body[1] = EventLine
    /\ outs[1].ok
    /\ outs[2].value = Envelope([content |-> <<TextElement>>])

\* One raw stream, not application/json, has been decoded.
StreamDecoded ==
    /\ Len(fed) = 1
    /\ ~IsJsonType(fed[1].content_type)
    /\ Len(outs) = 1

AcceptedKeys == {"result", "error", "jsonrpc"}

\* The line is 'data: <json>' for an object with one of the accepted keys.
C8_Qualifies(line) ==
    \E o \in StreamObjects : line = DataLine(Dumps(o)) /\ DOMAIN o \cap AcceptedKeys # {}

C8_Object(line) == CHOOSE o \in StreamObjects : line = DataLine(Dumps(o))

C8_First(lines) ==
    CHOOSE i \in 1..Len(lines) :
      C8_Qualifies(lines[i]) /\ \A j \in 1..(i - 1) : ~C8_Qualifies(lines[j])

\* The first qualifying 'data:' object, read up to its line and no further;
\* a failure when there is none.
C8_FirstDataObject(lines, out) ==
    IF \E i \in 1..Len(lines) : C8_Qualifies(lines[i])
      THEN /\ out.ok
           /\ out.value = C8_Object(lines[C8_First(lines)])
           /\ out.consumed = C8_First(lines)
      ELSE /\ ~out.ok
           /\ out.error = "No valid JSON-RPC response found in SSE stream"

C8_NoBareLine(lines) == \A i \in 1..Len(lines) : Head(lines[i]) # "{"

\* C8 as stated: from any stream that is not application/json the decoder
\* returns the first 'data:' object with a result, error or jsonrpc key,
\* reading no later line, and fails when the stream has no such object.
C8_FirstDataObjectOfAnyStream ==
    StreamDecoded => C8_FirstDataObject(fed[1].body, outs[1])

\* C8, amended: the same, for streams none of whose lines starts with '{'.
C8_FirstDataObjectOfFramedStream ==
    (StreamDecoded /\ C8_NoBareLine(fed[1].body))
      => C8_FirstDataObject(fed[1].body, outs[1])

C8_Witness ==
    /\ StreamDecoded
    /\ fed[1].body = <<DataLine(Truncated), DataLine(Dumps("error" :> [code |-> 0 - 32000, message |-> "boom"])),
                       DataLine(Dumps("result" :> [content |-> <<TextElement>>]))>>
    /\ outs[1].ok
    /\ outs[1].value = ("error" :> [code |-> 0 - 32000, message |-> "boom"])
    /\ outs[1].consumed = 2

\* C9: a line that is a bare JSON object is accepted under the rule of a
\* 'data:' line: a stream whose only line is an object with a result, error
\* or jsonrpc key decodes to that object.
C9_BareLineSameRule ==
    \A o \in StreamObjects :
      (StreamDecoded /\ fed[1].body = <<Dumps(o) \o <<"\n">>>>
         /\ DOMAIN o \cap AcceptedKeys # {})
        => /\ outs[1].ok
           /\ outs[1].value = o

\* ---------------------------------------------- the pass's token: claims

Authorized(headers) == "Authorization" \in DOMAIN headers

InPass == pc \in {"discover", "done"} /\ call.tool_name = "" /\ discover_result.kind # "raised"

\* C16: the token of a pass is the caller's when one is given, and then no
\* exchange is attempted; else the exchange is attempted and its token is
\* used when it gives one; BEARER_TOKEN is used only when the exchange
\* raised or gave none; the empty token only when none of the three is there.
C16_TokenPriority ==
    InPass =>
      /\ auth_token = discovery.token
      /\ discovery.offered.arg # "" =>
           /\ discovery.token = discovery.offered.arg
           /\ ~discovery.exchange_attempted
      /\ discovery.offered.arg = "" =>
           /\ discovery.exchange_attempted
           /\ discovery.offered.exchange # "" => discovery.token = discovery.offered.exchange
           /\ discovery.offered.exchange = "" => discovery.token = discovery.offered.bearer
      /\ discovery.token = "" =>
           /\ discovery.offered.arg = ""
           /\ discovery.offered.exchange = ""
           /\ discovery.offered.bearer = ""

C16_Witness ==
    /\ PassReturned
    /\ discovery.offered = [arg |-> "", exchange |-> "", bearer |-> "env-token"]
    /\ discovery.exchange_raised
    /\ discovery.token = "env-token"
    /\ \E i \in 1..Len(http_log) :
         /\ Authorized(http_log[i].headers)
         /\ http_log[i].headers["Authorization"] = <<BEARER_PREFIX, "env-token">>

\* ------------------------------------------ the manifest fallback: claims

Names(configs) == {configs[k].name : k \in 1..Len(configs)}

\* C17: a pass reads ToolingManifest.json exactly when the configuration
\* service failed or returned no server, and then its servers are the
\* manifest's entries that have a URL; when the service returned a server,
\* the pass's servers are the service's and no connection of the pass is to
\* a server of the manifest.
C17_ManifestIsFallback ==
    InPass =>
      /\ discovery.manifest_kind # "unread" <=>
           (discovery.config_raised \/ discovery.sdk_count = 0)
      /\ discovery.manifest_kind = "file" =>
           discovery.configs = SelectSeq(discovery.manifest_servers, LAMBDA e : e.url # << >>)
      /\ discovery.manifest_kind \in {"missing", "unreadable"} => discovery.configs = << >>
      /\ discovery.manifest_kind = "unread" =>
           /\ Len(discovery.configs) = discovery.sdk_count
           /\ Names(discovery.configs) \cap Names(discovery.manifest_servers) = {}
           /\ \A m \in PassRange :
                connected_servers[m].name \notin Names(discovery.manifest_servers)

C17_Witness ==
    /\ PassReturned
    /\ ~discovery.config_raised
    /\ discovery.sdk_count = 0
    /\ discovery.manifest_kind = "file"
    /\ Len(discovery.manifest_servers) > Len(discovery.configs)
    /\ PassRange # {}
    /\ \A m \in PassRange : connected_servers[m].name \in Names(discovery.manifest_servers)

\* ------------------------------------------------- end to end: claims

C18_Tool == MCPToolDefinition("send_email", LocalUrl, "MailTools")

C18_Connection == MCPServerConnection("MailTools", LocalUrl, LocalHeaders, <<C18_Tool>>, TRUE)

\* {"result": {"content": [{"text": "sent"}]}}
C18_Answer == "result" :> [content |-> <<TextElement>>]

\* The pass of the example: no configuration service, a manifest naming
\* MailTools at http://localhost:9000, nothing connected before.
C18_Pass ==
    /\ PassReturned
    /\ discovery.config_raised
    /\ discovery.manifest_kind = "file"
    /\ discovery.manifest_servers = <<ServerConfig("MailTools", LocalUrl)>>
    /\ discovery.first = 0

\* C18: with the configuration service unavailable and a manifest naming
\* MailTools at http://localhost:9000, a pass asks that server for its tools
\* and, when it lists send_email alone, leaves one connection and send_email
\* in the index; in that state call_tool("send_email") answered with
\* {"result": {"content": [{"text": "sent"}]}} returns "sent".
C18_EndToEnd ==
    /\ C18_Pass =>
         /\ Len(discovery.replies) = 1
         /\ Lists(discovery.replies[1], <<"send_email">>) =>
              /\ connected_servers = <<C18_Connection>>
              /\ tools_by_name = <<C18_Tool>>
              /\ discover_result = ReturnedTools(<<C18_Tool>>)
    /\ ( /\ pc = "done"
         /\ connected_servers = <<C18_Connection>>
         /\ tools_by_name = <<C18_Tool>>
         /\ call.tool_name = "send_email" ) =>
           /\ Calling
           /\ call.connection = C18_Connection
           /\ Carries(LastReply, C18_Answer) =>
                /\ call_result = Returned("sent")
                /\ http_log[Len(http_log)] =
                     Request(LocalUrl, RequestHeaders(LocalHeaders), "tools/call")

C18_Witness ==
    /\ pc = "done"
    /\ connected_servers = <<C18_Connection>>
    /\ tools_by_name = <<C18_Tool>>
    /\ call.tool_name = "send_email"
    /\ call.replies = <<Reply(JsonResponse(C18_Answer, <<JSON_TYPE>>))>>
    /\ call_result = Returned("sent")

\* ----------------------------------------------------- listing: claims

\* Both listing POSTs were answered with a listing of the same tools.
C19_Unchanged(replies) ==
    \E c1 \in Listings, c2 \in Listings :
      /\ c1.reply = replies[1]
      /\ c2.reply = replies[2]
      /\ c1.names = c2.names

C19_Names(replies) == (CHOOSE c \in Listings : c.reply = replies[1]).names

C19_ListingStep ==
    /\ UNCHANGED <<connected_servers, tools_by_name>>
    /\ (Len(outs') = 2 /\ C19_Unchanged(fed)) =>
         /\ ~outs'[1].raised
         /\ ~outs'[2].raised
         /\ outs'[1].tools = outs'[2].tools
         /\ [i \in 1..Len(outs'[1].tools) |-> outs'[1].tools[i].name] = C19_Names(fed)

\* C19: a tools/list call leaves the connected servers and the index as
\* they were, and two calls in a row against a server that lists the same
\* tools both times return the same tools in the server's order.
C19_ListingRepeatable == [][C19_ListingStep]_vars

C19_Witness ==
    /\ Len(outs) = 2
    /\ connected_servers # << >>
    /\ fed[1] # fed[2]
    /\ C19_Unchanged(fed)
    /\ Len(outs[1].tools) = 2
    /\ outs[1].tools = outs[2].tools

\* ------------------------------------- local and remote servers: claims

\* The host of a URL: its pieces between the scheme and the port or path.
HostPieces == {"localhost", "127.0.0.1", ".example.com", "agent365.svc.cloud.microsoft"}

HostOf(url) == SelectSeq(url, LAMBDA piece : piece \in HostPieces)

HostIsLocal(url) == HostOf(url) \in {<<"localhost">>, <<"127.0.0.1">>}

\* C14: a request to a URL whose host is localhost or 127.0.0.1, under any
\* scheme and port, carries no Authorization header, and neither do the
\* headers its connection keeps for later tool calls, token or no token.
C14_LocalNeverAuthorized ==
    /\ \A i \in 1..Len(http_log) :
         HostIsLocal(http_log[i].url) => ~Authorized(http_log[i].headers)
    /\ \A i \in 1..Len(connected_servers) :
         HostIsLocal(connected_servers[i].url) => ~Authorized(connected_servers[i].headers)

\* C15: in a pass whose token is empty every server whose host is neither
\* localhost nor 127.0.0.1 is skipped: no request goes to its URL and the
\* pass appends no connection to it.
C15_RemoteSkippedWithoutToken ==
    (pc \in {"discover", "done"} /\ call.tool_name = "" /\ discovery.token = "") =>
      /\ \A k \in 1..Len(discovery.replies) :
           ~HostIsLocal(discovery.configs[k].url) => discovery.replies[k] = Failure("skipped")
      /\ \A i \in 1..Len(http_log) : HostIsLocal(http_log[i].url)
      /\ \A m \in PassRange : HostIsLocal(connected_servers[m].url)

\* ------------------------------------------------------- turns: claims

\* C20: when the pass of a turn has returned, the connected servers are the
\* connections of that pass and the index holds the tools of that pass, so
\* that no server is held twice however many turns have gone by.
C20_RebuiltPerTurn ==
    PassReturned =>
      /\ discovery.first = 0
      /\ IndexNames(tools_by_name) = ToolNames(discovery.all_tools)
      /\ \A i, j \in 1..Len(connected_servers) :
           (i < j /\ connected_servers[i].name = connected_servers[j].name)
             => \E k, l \in 1..Len(discovery.configs) :
                  k < l /\ discovery.configs[k] = discovery.configs[l]

\* ---------------------------------------------- error envelopes: claims

\* {"jsonrpc": "2.0", "id": 1, "error": {"code": -32000, "message": "boom"}}
C30_ErrorEnvelope ==
    ("jsonrpc" :> "2.0") @@ ("id" :> 1) @@ ("error" :> [code |-> 0 - 32000, message |-> "boom"])

\* The 200 replies that carry it, as a JSON body and as an SSE event.
C30_Replies == { c.reply : c \in {c \in Carriers : c.obj = C30_ErrorEnvelope} }

\* C30: an attempt answered 200 with an envelope that has an error member
\* and no result member is the last of its call_tool: no request follows it,
\* nothing is raised, and the empty string is returned.
C30_ErrorEnvelopeReturnsEmpty ==
    \A k \in 1..Len(call.replies) :
      call.replies[k] \in C30_Replies =>
        /\ k = Len(call.replies)
        /\ pc = "done"
        /\ call_result = Returned("")
        /\ Len(http_log) = k
        /\ call.sleeps = k - 1

C30_Witness ==
    /\ pc = "done"
    /\ Len(call.replies) = 2
    /\ Answered(call.replies[1], 503)
    /\ call.replies[2] \in C30_Replies
    /\ call.replies[2].response.content_type = <<EVENT_STREAM>>
    /\ call_result = Returned("")

\* ------------------------------------------ connections and index: claims

\* C27: whatever passes, calls and cleanups have gone by, every connection
\* held is connected and every tool of the index names the url of a
\* connection held, and call_tool never fails for want of a connection.
C27_IndexHasConnection ==
    /\ \A i \in 1..Len(connected_servers) : connected_servers[i].connected
    /\ \A t \in 1..Len(tools_by_name) :
         \E i \in 1..Len(connected_servers) :
           connected_servers[i].url = tools_by_name[t].server_url
    /\ call_result.error.message # "No connection found"
    /\ (pc = "done" /\ call.tool_name \in IndexNames(tools_by_name)) =>
         call.connection # NoConnection

C27_Witness ==
    /\ pc = "done"
    /\ Len(connected_servers) = 2
    /\ Len(tools_by_name) > 2
    /\ call.tool_name \in IndexNames(tools_by_name)
    /\ call.connection = connected_servers[2]
    /\ call_result.kind = "returned"

\* -------------------------------------------------- reconnection: claims

Bearer(token) == <<BEARER_PREFIX, token>>

\* The last pass has connected the server the call goes to, with its token.
C29_Reconnected ==
    \E i \in 1..Len(connected_servers) :
      /\ connected_servers[i].url = call.connection.url
      /\ Authorized(connected_servers[i].headers)
      /\ connected_servers[i].headers["Authorization"] = Bearer(auth_token)

\* C29: once a later pass has reconnected a remote server with its own
\* token, every request of a call_tool to that server carries the
\* Authorization header built from the token of the latest pass.
C29_LatestTokenUsed ==
    (call.connection # NoConnection /\ C29_Reconnected) =>
      \A i \in 1..Len(http_log) :
        /\ Authorized(http_log[i].headers)
        /\ http_log[i].headers["Authorization"] = Bearer(auth_token)

\* ----------------------------------------------- the CrewAI sample: claims

\* C21: every tool call of a turn is recorded with the agent details and
\* the tenant details of that turn, never another turn's and never none.
C21_OwnDetailsRecorded ==
    \A i \in 1..Len(crew.tool_log) :
      /\ crew.tool_log[i].agent_details = AgentDetails(crew.tool_log[i].turn)
      /\ crew.tool_log[i].tenant_details = TenantDetails(crew.tool_log[i].turn)

\* C28: discover_and_connect_servers is invoked at most once on the agent,
\* however its turns interleave.
C28_DiscoveredOnce == crew.discoveries <= 1

\* ----------------------------------------------------- the wrapper: claims

\* C25: when the tool call under _run has failed, _run returns the string
\* 'Error executing <tool name>: <message>' and raises nothing, in both
\* wrappers.
C25_WrapperNeverRaises ==
    (wrapper.pc = "returned" /\ pc = "done" /\ call_result.kind = "raised") =>
      wrapper.result = ErrorExecuting(wrapper.tool_name, call_result.error)

\* C26: in either calling context, when _run of mcp_observable_tools
\* returns, the coroutine of the tool call has run to its end, and what it
\* returned is what _run returns.
C26_BothContextsReturnResult ==
    (wrapper.pc = "returned" /\ wrapper.implementation = "mcp_observable_tools"
       /\ wrapper.context \in CallingContexts) =>
      /\ pc = "done"
      /\ call_result.kind = "returned" => wrapper.result = RunReturned(call_result.value)

\* ----------------------------------------------------- the Bedrock: claims

\* C22: when the AgentCore client is initialised and the token exchange,
\* the discovery and the gateway calls all succeed, add_tool_servers_to_agent
\* ends without an exception and returns the pair of the agent it was given
\* and a gateway config whose name is the requested name, or the name
\* derived from the agent identity when none was requested.
C22_ReturnsAgentAndGateway ==
    (bedrock.pc = "done" /\ bedrock.agentcore_client /\ AllSucceed(bedrock.environment)) =>
      /\ bedrock.result.kind = "returned"
      /\ bedrock.result.agent = bedrock.agent
      /\ bedrock.result.gateway_config.name =
           GatewayNameOf(bedrock.gateway_name, bedrock.agentic_app_id)

\* ----------------------------------------------- assign_points: claims

\* The sum of the points of a leaderboard.
RECURSIVE C23_Total(_)
C23_Total(leaderboard) ==
    IF leaderboard = << >> THEN 0
    ELSE Head(leaderboard).points + C23_Total(Tail(leaderboard))

\* A run on an event id that the processed list already holds leaves both
\* files as they were; a run changes the two files together or not at all.
C23_RunStep ==
    /\ AlreadyProcessed(points'.event_id, load_processed_ids(points.processed_file))
         => /\ points'.processed_file = points.processed_file
            /\ points'.leaderboard_file = points.leaderboard_file
    /\ (points'.processed_file /= points.processed_file)
         <=> (C23_Total(LoadLeaderboard(points'.leaderboard_file))
                > C23_Total(LoadLeaderboard(points.leaderboard_file)))

\* C23: over the runs that share processed_ids.json and leaderboard.json,
\* no event id has its points added to the leaderboard twice, the processed
\* list holds exactly the ids whose points were added, and a run on an id
\* already in the list changes neither file.
C23_PointsOncePerEvent ==
    /\ [](\A i, j \in 1..Len(points.awarded) :
            points.awarded[i] = points.awarded[j] => i = j)
    /\ [](load_processed_ids(points.processed_file) = points.awarded)
    /\ [][C23_RunStep]_vars

\* An id was awarded, then met again, with other points on offer, and the
\* run left the files alone.
C23_Witness ==
    /\ points.outcome = "already_processed"
    /\ points.awarded /= << >>
    /\ points.runs = MaxRuns

\* ------------------------------------------------ track_points: claims

\* C24: after any runs of the tracker on the pull request, whatever the
\* API answered, at most one comment of the pull request has the marker.
C24_SingleTrackerComment ==
    Cardinality({i \in 1..Len(tracker.comments) :
                   tracker.comments[i].marker = COMMENT_MARKER}) <= 1

====
